---------------------------- MODULE Spec2Model ----------------------------
(***************************************************************************)
(* Rust-Meeting: the workflow and consistency layer of the lecture server. *)
(* Each axum handler of src/routes is an action (or, when it issues more   *)
(* than one storage call, one action per storage call, run by a request    *)
(* process).  The MongoDB collections are the state.  Every storage call   *)
(* is one atomic step on one collection, which is the per-document         *)
(* atomicity the handlers rely on.                                         *)
(***************************************************************************)
EXTENDS Integers, Sequences, FiniteSets, TLC

VARIABLES
    lectures,     \* collection "lecture"
    invitations,  \* collection "invitation"
    la,           \* collection "la" (attendance)
    feedback,     \* collection "feedback"
    discussion,   \* collection "discussion"
    users,        \* collection "users"
    lecSeq,       \* number of lecture _ids the driver has generated
    invSeq,       \* number of invitation _ids the driver has generated
    pc,           \* per request process: the storage call it is about to issue
    loc,          \* per request process: the handler's local variables
    last          \* the response of the handler that completed last

vars == <<lectures, invitations, la, feedback, discussion, users,
          lecSeq, invSeq, pc, loc, last>>

-----------------------------------------------------------------------------
(* Bounds of the model.                                                    *)

MaxLectures == 3
NumCodes == 2
MaxLA == 2
MaxFeedback == 2

-----------------------------------------------------------------------------
(* Program constants.                                                      *)

OK == 200
BAD_REQUEST == 400
UNAUTHORIZED == 401
NOT_FOUND == 404
INTERNAL_SERVER_ERROR == 500
\* A handler that panicked (unwrap on a storage error) sends no response.
PANIC == 0
CodeLo == 100000
Pending == 0
Accepted == 1

-----------------------------------------------------------------------------
(* Identifiers.  An ObjectId is written as its canonical (lower-case) hex  *)
(* string; two characters stand for the twenty-four of the real encoding.  *)

\* A stored BSON null, and a string that is no ObjectId.
NULL == "null"

\* Option<T> of a request payload.
None == <<>>
Some(v) == <<v>>
unwrap_or(o, default) == IF o = None THEN default ELSE o[1]

LectureOidSeq == <<"a1", "a2", "a3", "a4", "a5">>
InvitationOidSeq == <<"b1", "b2", "b3", "b4">>
UserOids == {"c1", "c2"}

\* ObjectId::parse_str accepts upper- and lower-case hex digits; to_hex
\* always writes lower case.
HexTable ==
    [s \in {"a1", "a2", "a3", "a4", "a5", "b1", "b2", "b3", "b4", "c1", "c2",
             "c3", "c4"}
        |-> s]
    @@ ("A1" :> "a1") @@ ("B1" :> "b1") @@ ("C1" :> "c1") @@ ("C2" :> "c2")

parse_str(s) == IF s \in DOMAIN HexTable THEN HexTable[s] ELSE NULL

\* str::trim on the strings the model sends.
TrimTable ==
    (" c1 " :> "c1") @@ ("  " :> "") @@ (" zz" :> "zz")

trim(s) == IF s \in DOMAIN TrimTable THEN TrimTable[s] ELSE s

\* chrono::DateTime::parse_from_rfc3339(..).timestamp_millis()
Rfc3339Table ==
    ("1970-01-01T00:00:01Z" :> 1000) @@ ("1970-01-01T01:00:02+01:00" :> 2000)

parse_from_rfc3339(s) == IF s \in DOMAIN Rfc3339Table THEN Rfc3339Table[s] ELSE -1

Codes == CodeLo .. (CodeLo + NumCodes - 1)

Procs == {"p1", "p2"}

Idle == [h |-> "none"]

Response(op, arg, code) == [op |-> op, arg |-> arg, code |-> code]

-----------------------------------------------------------------------------
(* Storage primitives on a collection held as a set of documents.          *)

\* update_one with $set: matched is the set of documents of coll the filter
\* matches and set maps a document to itself with the new fields. The first
\* match is updated; MongoDB fixes no order among the matches, so any one
\* may be the first.
UpdateOneResults(coll, matched, set) ==
    IF matched # {}
    THEN {(coll \ {d}) \cup {set[d]} : d \in matched}
    ELSE {coll}

\* delete_one: removes one matching document, if any.
DeleteOneResults(coll, matched) ==
    IF matched # {}
    THEN {coll \ {d} : d \in matched}
    ELSE {coll}

\* delete_many: removes every matching document.
DeleteMany(coll, matched) == coll \ matched

-----------------------------------------------------------------------------
(* Lecture registry: src/routes/lecture.rs                                 *)

\* What the model sends as LectureCreate.
LectureCreatePayloads ==
    [topic : {"t1"},
     start_time : {"1970-01-01T00:00:01Z", "soon"},
     duration : {60},
     description : {None},
     speaker_id : {None, Some("  "), Some("C1"), Some("zz")},
     organizer_id : {"c2", "zz"},
     status : {0}]

\* A speaker_id that is parsed without the trim and stored as the empty
\* string when it does not parse, for comparison.
CreateSpeakerIdUntrimmed(o) ==
    IF o = None THEN NULL
    ELSE IF parse_str(o[1]) = NULL THEN ""
    ELSE parse_str(o[1])

\* payload.speaker_id.and_then(trim, None if empty).and_then(parse_str .. to_hex)
CreateSpeakerId(o) ==
    IF o = None THEN NULL
    ELSE IF trim(o[1]) = "" THEN NULL
    ELSE parse_str(trim(o[1]))

\* create_lecture up to the call of generate_unique_lecturecode: the
\* validation of the payload, with no storage access.
CreateLectureBegin(p, payload) ==
    /\ pc[p] = "idle"
    /\ UNCHANGED <<lectures, invitations, la, feedback, discussion, users,
                   lecSeq, invSeq>>
    /\ IF parse_from_rfc3339(payload.start_time) = -1
          \/ parse_str(payload.organizer_id) = NULL
       THEN /\ last' = Response("create_lecture", <<>>, BAD_REQUEST)
            /\ UNCHANGED <<pc, loc>>
       ELSE /\ pc' = [pc EXCEPT ![p] = "gen"]
            /\ loc' = [loc EXCEPT ![p] =
                   [h |-> "create_lecture",
                    topic |-> payload.topic,
                    start_time |-> parse_from_rfc3339(payload.start_time),
                    duration |-> payload.duration,
                    description |-> unwrap_or(payload.description, ""),
                    speaker_id |-> CreateSpeakerId(payload.speaker_id),
                    organizer_id |-> parse_str(payload.organizer_id),
                    status |-> payload.status,
                    lecturecode |-> 0]]
            /\ UNCHANGED last

\* The probe of generate_unique_lecturecode: find_one({lecturecode: code}).
CodeTaken(code) == \E d \in lectures : d.lecturecode = code

\* One turn of the loop of generate_unique_lecturecode with the draw `code`:
\* a taken code goes round the loop again, a free one is returned.
GenerateProbe(p, code) ==
    /\ pc[p] = "gen"
    /\ loc' = [loc EXCEPT ![p].lecturecode = code]
    /\ pc' = [pc EXCEPT ![p] = IF CodeTaken(code) THEN "gen" ELSE "insert"]
    /\ UNCHANGED <<lectures, invitations, la, feedback, discussion, users,
                   lecSeq, invSeq, last>>

\* find_one(..).await.unwrap() on a storage error: the handler panics.
GenerateProbeFails(p) ==
    /\ pc[p] = "gen"
    /\ pc' = [pc EXCEPT ![p] = "idle"]
    /\ loc' = [loc EXCEPT ![p] = Idle]
    /\ last' = Response("create_lecture", <<>>, PANIC)
    /\ UNCHANGED <<lectures, invitations, la, feedback, discussion, users,
                   lecSeq, invSeq>>

LectureDoc(id, l) ==
    [_id |-> id, topic |-> l.topic, start_time |-> l.start_time,
     duration |-> l.duration, description |-> l.description,
     speaker_id |-> l.speaker_id, organizer_id |-> l.organizer_id,
     lecturecode |-> l.lecturecode, status |-> l.status]

\* create_lecture from insert_one to the response.
CreateLectureInsert(p) ==
    /\ pc[p] = "insert"
    /\ lecSeq < Len(LectureOidSeq)
    /\ lectures' = lectures \cup {LectureDoc(LectureOidSeq[lecSeq + 1], loc[p])}
    /\ lecSeq' = lecSeq + 1
    /\ pc' = [pc EXCEPT ![p] = "idle"]
    /\ loc' = [loc EXCEPT ![p] = Idle]
    /\ last' = Response("create_lecture",
                        <<LectureOidSeq[lecSeq + 1], loc[p].lecturecode>>, OK)
    /\ UNCHANGED <<invitations, la, feedback, discussion, users, invSeq>>

CreateLectureInsertFails(p) ==
    /\ pc[p] = "insert"
    /\ pc' = [pc EXCEPT ![p] = "idle"]
    /\ loc' = [loc EXCEPT ![p] = Idle]
    /\ last' = Response("create_lecture", <<>>, INTERNAL_SERVER_ERROR)
    /\ UNCHANGED <<lectures, invitations, la, feedback, discussion, users,
                   lecSeq, invSeq>>

\* A cascading delete, for comparison: it also removes the invitations that
\* name the lecture.
delete_lecture_cascade(lecture_id) ==
    /\ UNCHANGED <<la, feedback, discussion, users, lecSeq, invSeq, pc, loc>>
    /\ IF parse_str(lecture_id) = NULL
       THEN /\ last' = Response("delete_lecture", <<lecture_id>>, BAD_REQUEST)
            /\ UNCHANGED <<lectures, invitations>>
       ELSE /\ lectures' \in DeleteOneResults(lectures,
                                {d \in lectures : d._id = parse_str(lecture_id)})
            /\ invitations' = DeleteMany(invitations,
                                {d \in invitations : d.lecture_id = parse_str(lecture_id)})
            /\ last' = Response("delete_lecture", <<lecture_id>>,
                         IF \E d \in lectures : d._id = parse_str(lecture_id)
                         THEN OK ELSE NOT_FOUND)

\* A delete that answers OK whether or not a lecture matched, for comparison.
delete_lecture_quiet(lecture_id) ==
    /\ UNCHANGED <<invitations, la, feedback, discussion, users,
                   lecSeq, invSeq, pc, loc>>
    /\ IF parse_str(lecture_id) = NULL
       THEN /\ last' = Response("delete_lecture", <<lecture_id>>, BAD_REQUEST)
            /\ UNCHANGED lectures
       ELSE /\ lectures' \in DeleteOneResults(lectures,
                                {d \in lectures : d._id = parse_str(lecture_id)})
            /\ last' = Response("delete_lecture", <<lecture_id>>, OK)

\* DELETE /lecture/:lecture_id: delete_one({_id}); nothing else is touched.
delete_lecture(lecture_id) ==
    /\ UNCHANGED <<invitations, la, feedback, discussion, users,
                   lecSeq, invSeq, pc, loc>>
    /\ IF parse_str(lecture_id) = NULL
       THEN /\ last' = Response("delete_lecture", <<lecture_id>>, BAD_REQUEST)
            /\ UNCHANGED lectures
       ELSE /\ lectures' \in DeleteOneResults(lectures,
                                {d \in lectures : d._id = parse_str(lecture_id)})
            /\ last' = Response("delete_lecture", <<lecture_id>>,
                         IF \E d \in lectures : d._id = parse_str(lecture_id)
                         THEN OK ELSE NOT_FOUND)

\* GET /lecture/by_organizer/:organizer_id: find({organizer_id}) with the
\* path string as it came, compared with the stored hex string.
list_by_organizer(organizer_id) ==
    /\ UNCHANGED <<lectures, invitations, la, feedback, discussion, users,
                   lecSeq, invSeq, pc, loc>>
    /\ last' = Response("list_by_organizer",
           <<organizer_id,
             {d._id : d \in {x \in lectures : x.organizer_id = organizer_id}}>>,
           OK)

\* GET /lecture/by_speaker/:speaker_id: find({speaker_id}) with the path
\* string as it came.
get_by_speaker(speaker_id) ==
    /\ UNCHANGED <<lectures, invitations, la, feedback, discussion, users,
                   lecSeq, invSeq, pc, loc>>
    /\ last' = Response("get_by_speaker",
           <<speaker_id,
             {d._id : d \in {x \in lectures : x.speaker_id = speaker_id}}>>,
           OK)

\* Creations in flight: each will take one _id.
InFlightCreates == Cardinality({p \in Procs : pc[p] \in {"gen", "insert"}})

-----------------------------------------------------------------------------
(* Invitation workflow: src/routes/invitation.rs                           *)

\* The handlers with one storage call answer INTERNAL_SERVER_ERROR when that
\* call fails and change nothing; the model leaves those responses out.

InvitationDoc(id, lecture_oid, speaker_oid, status) ==
    [_id |-> id, lecture_id |-> lecture_oid, speaker_id |-> speaker_oid,
     status |-> status]

\* A create that replaces the invitations already stored for the payload's
\* (lecture_id, speaker_id), for comparison.
create_invitation_replace(payload) ==
    /\ UNCHANGED <<lectures, la, feedback, discussion, users, lecSeq, pc, loc>>
    /\ IF parse_str(payload.lecture_id) = NULL
          \/ parse_str(payload.speaker_id) = NULL
       THEN /\ last' = Response("create_invitation", <<>>, BAD_REQUEST)
            /\ UNCHANGED <<invitations, invSeq>>
       ELSE /\ invSeq < Len(InvitationOidSeq)
            /\ invitations' =
                   {d \in invitations :
                       ~ (/\ d.lecture_id = parse_str(payload.lecture_id)
                          /\ d.speaker_id = parse_str(payload.speaker_id))}
                   \cup
                   {InvitationDoc(InvitationOidSeq[invSeq + 1],
                                  parse_str(payload.lecture_id),
                                  parse_str(payload.speaker_id),
                                  payload.status)}
            /\ invSeq' = invSeq + 1
            /\ last' = Response("create_invitation",
                                <<InvitationOidSeq[invSeq + 1]>>, OK)

\* POST /invitation: insert_one of the payload's ids as ObjectIds and its
\* status, under a driver-generated _id.
create_invitation(payload) ==
    /\ UNCHANGED <<lectures, la, feedback, discussion, users, lecSeq, pc, loc>>
    /\ IF parse_str(payload.lecture_id) = NULL
          \/ parse_str(payload.speaker_id) = NULL
       THEN /\ last' = Response("create_invitation", <<>>, BAD_REQUEST)
            /\ UNCHANGED <<invitations, invSeq>>
       ELSE /\ invSeq < Len(InvitationOidSeq)
            /\ invitations' = invitations \cup
                   {InvitationDoc(InvitationOidSeq[invSeq + 1],
                                  parse_str(payload.lecture_id),
                                  parse_str(payload.speaker_id),
                                  payload.status)}
            /\ invSeq' = invSeq + 1
            /\ last' = Response("create_invitation",
                                <<InvitationOidSeq[invSeq + 1]>>, OK)

get_invitation(invitation_id) ==
    /\ UNCHANGED <<lectures, invitations, la, feedback, discussion, users,
                   lecSeq, invSeq, pc, loc>>
    /\ IF parse_str(invitation_id) = NULL
       THEN last' = Response("get_invitation", <<invitation_id>>, BAD_REQUEST)
       ELSE IF \E d \in invitations : d._id = parse_str(invitation_id)
       THEN \E d \in invitations :
               /\ d._id = parse_str(invitation_id)
               /\ last' = Response("get_invitation",
                              <<invitation_id, d.lecture_id, d.speaker_id,
                                d.status>>, OK)
       ELSE last' = Response("get_invitation", <<invitation_id>>, NOT_FOUND)

\* An update that also copies the payload's speaker onto the lecture, for
\* comparison.
update_invitation_sync(invitation_id, payload) ==
    /\ UNCHANGED <<la, feedback, discussion, users, lecSeq, invSeq, pc, loc>>
    /\ IF parse_str(invitation_id) = NULL
          \/ parse_str(payload.lecture_id) = NULL
          \/ parse_str(payload.speaker_id) = NULL
       THEN /\ last' = Response("update_invitation", <<invitation_id>>,
                                BAD_REQUEST)
            /\ UNCHANGED <<invitations, lectures>>
       ELSE /\ invitations' \in UpdateOneResults(invitations,
                   {d \in invitations : d._id = parse_str(invitation_id)},
                   [d \in invitations |-> InvitationDoc(d._id,
                                  parse_str(payload.lecture_id),
                                  parse_str(payload.speaker_id),
                                  payload.status)])
            /\ lectures' \in UpdateOneResults(lectures,
                   {d \in lectures : d._id = parse_str(payload.lecture_id)},
                   [d \in lectures |->
                       [d EXCEPT !.speaker_id = parse_str(payload.speaker_id)]])
            /\ last' = Response("update_invitation", <<invitation_id>>,
                   IF \E d \in invitations : d._id = parse_str(invitation_id)
                   THEN OK ELSE NOT_FOUND)


update_invitation(invitation_id, payload) ==
    /\ UNCHANGED <<lectures, la, feedback, discussion, users,
                   lecSeq, invSeq, pc, loc>>
    /\ IF parse_str(invitation_id) = NULL
          \/ parse_str(payload.lecture_id) = NULL
          \/ parse_str(payload.speaker_id) = NULL
       THEN /\ last' = Response("update_invitation", <<invitation_id>>,
                                BAD_REQUEST)
            /\ UNCHANGED invitations
       ELSE /\ invitations' \in UpdateOneResults(invitations,
                   {d \in invitations : d._id = parse_str(invitation_id)},
                   [d \in invitations |-> InvitationDoc(d._id,
                                  parse_str(payload.lecture_id),
                                  parse_str(payload.speaker_id),
                                  payload.status)])
            /\ last' = Response("update_invitation", <<invitation_id>>,
                   IF \E d \in invitations : d._id = parse_str(invitation_id)
                   THEN OK ELSE NOT_FOUND)

delete_invitation(invitation_id) ==
    /\ UNCHANGED <<lectures, la, feedback, discussion, users,
                   lecSeq, invSeq, pc, loc>>
    /\ IF parse_str(invitation_id) = NULL
       THEN /\ last' = Response("delete_invitation", <<invitation_id>>,
                                BAD_REQUEST)
            /\ UNCHANGED invitations
       ELSE /\ invitations' \in DeleteOneResults(invitations,
                   {d \in invitations : d._id = parse_str(invitation_id)})
            /\ last' = Response("delete_invitation", <<invitation_id>>,
                   IF \E d \in invitations : d._id = parse_str(invitation_id)
                   THEN OK ELSE NOT_FOUND)

\* A bulk delete whose filter is on _id in place of lecture_id, for
\* comparison.
delete_invitation_by_lid_id(lecture_id) ==
    /\ UNCHANGED <<lectures, la, feedback, discussion, users,
                   lecSeq, invSeq, pc, loc>>
    /\ IF parse_str(lecture_id) = NULL
       THEN /\ last' = Response("delete_invitation_by_lid", <<lecture_id>>,
                                BAD_REQUEST)
            /\ UNCHANGED invitations
       ELSE /\ invitations' = DeleteMany(invitations,
                   {d \in invitations : d._id = parse_str(lecture_id)})
            /\ last' = Response("delete_invitation_by_lid", <<lecture_id>>, OK)

delete_invitation_by_lid(lecture_id) ==
    /\ UNCHANGED <<lectures, la, feedback, discussion, users,
                   lecSeq, invSeq, pc, loc>>
    /\ IF parse_str(lecture_id) = NULL
       THEN /\ last' = Response("delete_invitation_by_lid", <<lecture_id>>,
                                BAD_REQUEST)
            /\ UNCHANGED invitations
       ELSE /\ invitations' = DeleteMany(invitations,
                   {d \in invitations : d.lecture_id = parse_str(lecture_id)})
            /\ last' = Response("delete_invitation_by_lid", <<lecture_id>>, OK)

\* An accept that takes a missing invitation for one it has nothing to do
\* on and answers OK, for comparison.
AcceptFindMissingOk(p, invitation_id) ==
    /\ pc[p] = "idle"
    /\ UNCHANGED <<lectures, invitations, la, feedback, discussion, users,
                   lecSeq, invSeq>>
    /\ IF parse_str(invitation_id) = NULL
       THEN /\ last' = Response("accept_invitation",
                       <<invitation_id, "Invalid invitation ID">>, BAD_REQUEST)
            /\ UNCHANGED <<pc, loc>>
       ELSE IF \E d \in invitations : d._id = parse_str(invitation_id)
       THEN \E d \in invitations :
               /\ d._id = parse_str(invitation_id)
               /\ pc' = [pc EXCEPT ![p] = "accept_status"]
               /\ loc' = [loc EXCEPT ![p] =
                      [h |-> "accept_invitation",
                       invitation_id |-> invitation_id,
                       oid |-> d._id,
                       lecture_oid |-> d.lecture_id,
                       speaker_oid |-> d.speaker_id]]
               /\ UNCHANGED last
       ELSE /\ last' = Response("accept_invitation",
                       <<invitation_id, "">>, OK)
            /\ UNCHANGED <<pc, loc>>

\* An accept that answers OK at once when the invitation is already
\* Accepted, for comparison.
AcceptFindShortCircuit(p, invitation_id) ==
    /\ pc[p] = "idle"
    /\ UNCHANGED <<lectures, invitations, la, feedback, discussion, users,
                   lecSeq, invSeq>>
    /\ IF parse_str(invitation_id) = NULL
       THEN /\ last' = Response("accept_invitation",
                       <<invitation_id, "Invalid invitation ID">>, BAD_REQUEST)
            /\ UNCHANGED <<pc, loc>>
       ELSE IF \E d \in invitations : d._id = parse_str(invitation_id)
       THEN \E d \in invitations :
               /\ d._id = parse_str(invitation_id)
               /\ IF d.status = Accepted
                  THEN /\ last' = Response("accept_invitation",
                                      <<invitation_id, "">>, OK)
                       /\ UNCHANGED <<pc, loc>>
                  ELSE /\ pc' = [pc EXCEPT ![p] = "accept_status"]
                       /\ loc' = [loc EXCEPT ![p] =
                              [h |-> "accept_invitation",
                               invitation_id |-> invitation_id,
                               oid |-> d._id,
                               lecture_oid |-> d.lecture_id,
                               speaker_oid |-> d.speaker_id]]
                       /\ UNCHANGED last
       ELSE /\ last' = Response("accept_invitation",
                       <<invitation_id, "Invitation not found">>, NOT_FOUND)
            /\ UNCHANGED <<pc, loc>>

\* accept_invitation up to its first write: parse the id, load the
\* invitation, read its lecture_id and speaker_id.
AcceptFind(p, invitation_id) ==
    /\ pc[p] = "idle"
    /\ UNCHANGED <<lectures, invitations, la, feedback, discussion, users,
                   lecSeq, invSeq>>
    /\ IF parse_str(invitation_id) = NULL
       THEN /\ last' = Response("accept_invitation",
                       <<invitation_id, "Invalid invitation ID">>, BAD_REQUEST)
            /\ UNCHANGED <<pc, loc>>
       ELSE IF \E d \in invitations : d._id = parse_str(invitation_id)
       THEN \E d \in invitations :
               /\ d._id = parse_str(invitation_id)
               /\ pc' = [pc EXCEPT ![p] = "accept_status"]
               /\ loc' = [loc EXCEPT ![p] =
                      [h |-> "accept_invitation",
                       invitation_id |-> invitation_id,
                       oid |-> d._id,
                       lecture_oid |-> d.lecture_id,
                       speaker_oid |-> d.speaker_id]]
               /\ UNCHANGED last
       ELSE /\ last' = Response("accept_invitation",
                       <<invitation_id, "Invitation not found">>, NOT_FOUND)
            /\ UNCHANGED <<pc, loc>>

\* The find_one of accept_invitation fails: the handler returns at once.
AcceptFindFails(p, invitation_id) ==
    /\ pc[p] = "idle"
    /\ parse_str(invitation_id) # NULL
    /\ last' = Response("accept_invitation",
                        <<invitation_id, "query failed">>, INTERNAL_SERVER_ERROR)
    /\ UNCHANGED <<lectures, invitations, la, feedback, discussion, users,
                   lecSeq, invSeq, pc, loc>>

AcceptReturn(p, code, message) ==
    /\ pc' = [pc EXCEPT ![p] = "idle"]
    /\ loc' = [loc EXCEPT ![p] = Idle]
    /\ last' = Response("accept_invitation",
                        <<loc[p].invitation_id, message>>, code)

\* A status step that writes nothing and leaves the status to be written
\* after the lecture, for comparison.
AcceptSetStatusLater(p) ==
    /\ pc[p] = "accept_status"
    /\ pc' = [pc EXCEPT ![p] = "accept_speaker"]
    /\ UNCHANGED <<lectures, invitations, la, feedback, discussion, users,
                   lecSeq, invSeq, loc, last>>

\* A status write that stores the whole invitation as accept read it, for
\* comparison.
AcceptSetStatusWriteBack(p) ==
    /\ pc[p] = "accept_status"
    /\ invitations' \in UpdateOneResults(invitations,
           {d \in invitations : d._id = loc[p].oid},
           [d \in invitations |->
               InvitationDoc(d._id, loc[p].lecture_oid, loc[p].speaker_oid,
                             Accepted)])
    /\ pc' = [pc EXCEPT ![p] = "accept_speaker"]
    /\ UNCHANGED <<lectures, la, feedback, discussion, users, lecSeq, invSeq,
                   loc, last>>

\* A status write that flips the status instead of setting it, for
\* comparison.
AcceptSetStatusToggle(p) ==
    /\ pc[p] = "accept_status"
    /\ invitations' \in UpdateOneResults(invitations,
           {d \in invitations : d._id = loc[p].oid},
           [d \in invitations |-> [d EXCEPT !.status = IF d.status = Accepted
                                           THEN Pending ELSE Accepted]])
    /\ pc' = [pc EXCEPT ![p] = "accept_speaker"]
    /\ UNCHANGED <<lectures, la, feedback, discussion, users, lecSeq, invSeq,
                   loc, last>>

\* The status write: update_one({_id: oid}, {$set: {status: 1}}).
AcceptSetStatus(p) ==
    /\ pc[p] = "accept_status"
    /\ invitations' \in UpdateOneResults(invitations,
           {d \in invitations : d._id = loc[p].oid},
           [d \in invitations |-> [d EXCEPT !.status = Accepted]])
    /\ pc' = [pc EXCEPT ![p] = "accept_speaker"]
    /\ UNCHANGED <<lectures, la, feedback, discussion, users, lecSeq, invSeq,
                   loc, last>>

\* The status write fails: the handler returns before the lecture write.
AcceptSetStatusFails(p) ==
    /\ pc[p] = "accept_status"
    /\ AcceptReturn(p, INTERNAL_SERVER_ERROR, "update failed")
    /\ UNCHANGED <<lectures, invitations, la, feedback, discussion, users,
                   lecSeq, invSeq>>

\* A lecture write without the _id filter, which sets the speaker of every
\* lecture, for comparison.
AcceptSetSpeakerEvery(p) ==
    /\ pc[p] = "accept_speaker"
    /\ lectures' = {[d EXCEPT !.speaker_id = loc[p].speaker_oid] : d \in lectures}
    /\ AcceptReturn(p, OK, "")
    /\ UNCHANGED <<invitations, la, feedback, discussion, users, lecSeq, invSeq>>

\* A lecture write that stores the speaker only when the lecture has none,
\* for comparison.
AcceptSetSpeakerFirstWins(p) ==
    /\ pc[p] = "accept_speaker"
    /\ lectures' \in UpdateOneResults(lectures,
           {d \in lectures : d._id = loc[p].lecture_oid},
           [d \in lectures |->
               [d EXCEPT !.speaker_id = IF d.speaker_id = NULL
                                        THEN loc[p].speaker_oid
                                        ELSE d.speaker_id]])
    /\ AcceptReturn(p, OK, "")
    /\ UNCHANGED <<invitations, la, feedback, discussion, users, lecSeq, invSeq>>

\* A lecture write that answers NOT_FOUND when no lecture matched, for
\* comparison.
AcceptSetSpeakerChecked(p) ==
    /\ pc[p] = "accept_speaker"
    /\ lectures' \in UpdateOneResults(lectures,
           {d \in lectures : d._id = loc[p].lecture_oid},
           [d \in lectures |-> [d EXCEPT !.speaker_id = loc[p].speaker_oid]])
    /\ IF \E d \in lectures : d._id = loc[p].lecture_oid
       THEN AcceptReturn(p, OK, "")
       ELSE AcceptReturn(p, NOT_FOUND, "Lecture not found")
    /\ UNCHANGED <<invitations, la, feedback, discussion, users, lecSeq, invSeq>>

\* The lecture write: update_one({_id: lecture_oid},
\* {$set: {speaker_id: speaker_oid.to_hex()}}), then the response.
AcceptSetSpeaker(p) ==
    /\ pc[p] = "accept_speaker"
    /\ lectures' \in UpdateOneResults(lectures,
           {d \in lectures : d._id = loc[p].lecture_oid},
           [d \in lectures |-> [d EXCEPT !.speaker_id = loc[p].speaker_oid]])
    /\ AcceptReturn(p, OK, "")
    /\ UNCHANGED <<invitations, la, feedback, discussion, users, lecSeq, invSeq>>

\* A failing lecture write that rolls the status write back, for comparison.
AcceptSetSpeakerFailsRollback(p) ==
    /\ pc[p] = "accept_speaker"
    /\ invitations' \in UpdateOneResults(invitations,
           {d \in invitations : d._id = loc[p].oid},
           [d \in invitations |-> [d EXCEPT !.status = Pending]])
    /\ AcceptReturn(p, INTERNAL_SERVER_ERROR, "update lecture failed")
    /\ UNCHANGED <<lectures, la, feedback, discussion, users, lecSeq, invSeq>>

\* The lecture write fails after the status write was committed.
AcceptSetSpeakerFails(p) ==
    /\ pc[p] = "accept_speaker"
    /\ AcceptReturn(p, INTERNAL_SERVER_ERROR, "update lecture failed")
    /\ UNCHANGED <<lectures, invitations, la, feedback, discussion, users,
                   lecSeq, invSeq>>

-----------------------------------------------------------------------------
(* Attendance ledger: src/routes/la.rs                                     *)

LaOidSeq == <<"d1", "d2", "d3", "d4", "d5">>
FeedbackOidSeq == <<"e1", "e2", "e3", "e4", "e5">>
DiscussionOidSeq == <<"f1", "f2", "f3", "f4">>

\* Utc::now().timestamp_millis(), as the handler reads it.
Times == {1, 2}

\* The _id the driver generates for an insert: one no document of the
\* collection has.
FreshOid(coll, seq) ==
    seq[CHOOSE i \in 1 .. Len(seq) :
            /\ \A d \in coll : d._id # seq[i]
            /\ \A j \in 1 .. (i - 1) : \E d \in coll : d._id = seq[j]]

HasFreshOid(coll, seq) == \E i \in 1 .. Len(seq) : \A d \in coll : d._id # seq[i]

LaDoc(id, lecture_oid, audience_oid, is_present, joined_at) ==
    [_id |-> id, lecture_id |-> lecture_oid, audience_id |-> audience_oid,
     is_present |-> is_present, joined_at |-> joined_at]

LaFrame == UNCHANGED <<lectures, invitations, feedback, discussion, users,
                       lecSeq, invSeq, pc, loc>>

LaKey(d, lecture_oid, audience_oid) ==
    d.lecture_id = lecture_oid /\ d.audience_id = audience_oid

\* POST /LA/add: payload is an LARecord, is_present and joined_at optional.
add_la(payload, now) ==
    /\ LaFrame
    /\ IF parse_str(payload.lecture_id) = NULL
          \/ parse_str(payload.audience_id) = NULL
       THEN /\ last' = Response("add_la", <<>>, BAD_REQUEST)
            /\ UNCHANGED la
       ELSE /\ HasFreshOid(la, LaOidSeq)
            /\ la' = la \cup
                   {LaDoc(FreshOid(la, LaOidSeq),
                          parse_str(payload.lecture_id),
                          parse_str(payload.audience_id),
                          unwrap_or(payload.is_present, FALSE),
                          unwrap_or(payload.joined_at, now))}
            /\ last' = Response("add_la",
                   <<payload.lecture_id, payload.audience_id>>, OK)

\* POST /LA/create
create_la_entry(data, now) ==
    /\ LaFrame
    /\ IF parse_str(data.lecture_id) = NULL
          \/ parse_str(data.audience_id) = NULL
       THEN /\ last' = Response("create_la_entry", <<>>, BAD_REQUEST)
            /\ UNCHANGED la
       ELSE /\ HasFreshOid(la, LaOidSeq)
            /\ la' = la \cup
                   {LaDoc(FreshOid(la, LaOidSeq),
                          parse_str(data.lecture_id),
                          parse_str(data.audience_id), FALSE, now)}
            /\ last' = Response("create_la_entry",
                   <<data.lecture_id, data.audience_id,
                     FreshOid(la, LaOidSeq)>>, OK)

\* A presence write that never matches and always inserts, for comparison.
UpsertPresenceInsertOnly(lecture_oid, audience_oid, is_present, now) ==
    /\ HasFreshOid(la, LaOidSeq)
    /\ la' = la \cup {LaDoc(FreshOid(la, LaOidSeq), lecture_oid,
                            audience_oid, is_present, now)}

\* The upsert of update_is_present: update_one(filter, {$set, $setOnInsert},
\* upsert(true)) matches on (lecture_id, audience_id), sets is_present and
\* joined_at on a matched document, and inserts one when none matches.
UpsertPresence(lecture_oid, audience_oid, is_present, now) ==
    IF \E d \in la : LaKey(d, lecture_oid, audience_oid)
    THEN la' \in UpdateOneResults(la,
             {d \in la : LaKey(d, lecture_oid, audience_oid)},
             [d \in la |-> [d EXCEPT !.is_present = is_present,
                                  !.joined_at = now]])
    ELSE /\ HasFreshOid(la, LaOidSeq)
         /\ la' = la \cup {LaDoc(FreshOid(la, LaOidSeq), lecture_oid,
                                 audience_oid, is_present, now)}

\* POST /LA/update_is_present
update_is_present(payload, now) ==
    /\ LaFrame
    /\ IF parse_str(payload.lecture_id) = NULL
          \/ parse_str(payload.audience_id) = NULL
       THEN /\ last' = Response("update_is_present", <<>>, BAD_REQUEST)
            /\ UNCHANGED la
       ELSE /\ UpsertPresence(parse_str(payload.lecture_id),
                              parse_str(payload.audience_id),
                              payload.is_present, now)
            /\ last' = Response("update_is_present",
                   <<payload.lecture_id, payload.audience_id,
                     payload.is_present,
                     IF \E d \in la : LaKey(d, parse_str(payload.lecture_id),
                                            parse_str(payload.audience_id))
                     THEN "is_present updated" ELSE "new record created">>,
                   OK)

\* A delete by key that removes every record of the key (delete_many), for
\* comparison.
delete_la_every(lecture_id, audience_id) ==
    /\ LaFrame
    /\ IF parse_str(lecture_id) = NULL \/ parse_str(audience_id) = NULL
       THEN /\ last' = Response("delete_la", <<lecture_id, audience_id>>,
                                BAD_REQUEST)
            /\ UNCHANGED la
       ELSE /\ la' = DeleteMany(la,
                   {d \in la : LaKey(d, parse_str(lecture_id),
                                    parse_str(audience_id))})
            /\ last' = Response("delete_la", <<lecture_id, audience_id>>,
                   IF \E d \in la : LaKey(d, parse_str(lecture_id),
                                          parse_str(audience_id))
                   THEN OK ELSE NOT_FOUND)

\* DELETE /LA/delete?lecture_id=..&audience_id=..  (NULL: parameter absent)
delete_la(lecture_id, audience_id) ==
    /\ LaFrame
    /\ IF parse_str(lecture_id) = NULL \/ parse_str(audience_id) = NULL
       THEN /\ last' = Response("delete_la", <<lecture_id, audience_id>>,
                                BAD_REQUEST)
            /\ UNCHANGED la
       ELSE /\ la' \in DeleteOneResults(la,
                   {d \in la : LaKey(d, parse_str(lecture_id),
                                    parse_str(audience_id))})
            /\ last' = Response("delete_la", <<lecture_id, audience_id>>,
                   IF \E d \in la : LaKey(d, parse_str(lecture_id),
                                          parse_str(audience_id))
                   THEN OK ELSE NOT_FOUND)

\* A bulk delete that answers NOT_FOUND when it deleted nothing, for
\* comparison.
delete_la_by_lid_strict(lecture_id) ==
    /\ LaFrame
    /\ IF parse_str(lecture_id) = NULL
       THEN /\ last' = Response("delete_la_by_lid", <<lecture_id>>, BAD_REQUEST)
            /\ UNCHANGED la
       ELSE /\ la' = DeleteMany(la, {d \in la : d.lecture_id = parse_str(lecture_id)})
            /\ last' = Response("delete_la_by_lid", <<lecture_id>>,
                   IF \E d \in la : d.lecture_id = parse_str(lecture_id)
                   THEN OK ELSE NOT_FOUND)

\* DELETE /LA/deletela/:lecture_id
delete_la_by_lid(lecture_id) ==
    /\ LaFrame
    /\ IF parse_str(lecture_id) = NULL
       THEN /\ last' = Response("delete_la_by_lid", <<lecture_id>>, BAD_REQUEST)
            /\ UNCHANGED la
       ELSE /\ la' = DeleteMany(la, {d \in la : d.lecture_id = parse_str(lecture_id)})
            /\ last' = Response("delete_la_by_lid", <<lecture_id>>, OK)

-----------------------------------------------------------------------------
(* Feedback aggregator: src/routes/feedback.rs                             *)

FeedbackKey(d, lecture_oid, user_oid) ==
    d.lecture_id = lecture_oid /\ d.user_id = user_oid

\* The $set document of submit_feedback.
FeedbackSet(payload, now) ==
    [too_fast |-> unwrap_or(payload.too_fast, FALSE),
     too_slow |-> unwrap_or(payload.too_slow, FALSE),
     boring |-> unwrap_or(payload.boring, FALSE),
     bad_question_quality |-> unwrap_or(payload.bad_question_quality, FALSE),
     other |-> unwrap_or(payload.other, ""),
     created_at |-> now]

FeedbackDoc(id, lecture_oid, user_oid, set) ==
    [_id |-> id, lecture_id |-> lecture_oid, user_id |-> user_oid,
     too_fast |-> set.too_fast, too_slow |-> set.too_slow,
     boring |-> set.boring,
     bad_question_quality |-> set.bad_question_quality,
     other |-> set.other, created_at |-> set.created_at]

\* A feedback write that merges into a matched document, for comparison: a
\* flag stays true once set and an empty text keeps the text that was there.
UpsertFeedbackMerge(lecture_oid, user_oid, set) ==
    IF \E d \in feedback : FeedbackKey(d, lecture_oid, user_oid)
    THEN feedback' \in UpdateOneResults(feedback,
             {d \in feedback : FeedbackKey(d, lecture_oid, user_oid)},
             [d \in feedback |->
                 FeedbackDoc(d._id, d.lecture_id, d.user_id,
                     [too_fast |-> d.too_fast \/ set.too_fast,
                      too_slow |-> d.too_slow \/ set.too_slow,
                      boring |-> d.boring \/ set.boring,
                      bad_question_quality |->
                          d.bad_question_quality \/ set.bad_question_quality,
                      other |-> IF set.other = "" THEN d.other ELSE set.other,
                      created_at |-> set.created_at])])
    ELSE /\ HasFreshOid(feedback, FeedbackOidSeq)
         /\ feedback' = feedback \cup
                {FeedbackDoc(FreshOid(feedback, FeedbackOidSeq),
                             lecture_oid, user_oid, set)}

\* A feedback write that never matches and always inserts, for comparison.
UpsertFeedbackInsertOnly(lecture_oid, user_oid, set) ==
    /\ HasFreshOid(feedback, FeedbackOidSeq)
    /\ feedback' = feedback \cup
           {FeedbackDoc(FreshOid(feedback, FeedbackOidSeq),
                        lecture_oid, user_oid, set)}

\* A feedback write with $setOnInsert in place of $set, for comparison: a
\* matched document keeps its fields.
UpsertFeedbackSetOnInsert(lecture_oid, user_oid, set) ==
    IF \E d \in feedback : FeedbackKey(d, lecture_oid, user_oid)
    THEN feedback' = feedback
    ELSE /\ HasFreshOid(feedback, FeedbackOidSeq)
         /\ feedback' = feedback \cup
                {FeedbackDoc(FreshOid(feedback, FeedbackOidSeq),
                             lecture_oid, user_oid, set)}

\* update_one(filter, {$set}, upsert(true)): a matched document gets the
\* six fields; with no match a document is inserted from the filter's
\* lecture_id and user_id and the six fields.
UpsertFeedback(lecture_oid, user_oid, set) ==
    IF \E d \in feedback : FeedbackKey(d, lecture_oid, user_oid)
    THEN feedback' \in UpdateOneResults(feedback,
             {d \in feedback : FeedbackKey(d, lecture_oid, user_oid)},
             [d \in feedback |-> FeedbackDoc(d._id, d.lecture_id, d.user_id, set)])
    ELSE /\ HasFreshOid(feedback, FeedbackOidSeq)
         /\ feedback' = feedback \cup
                {FeedbackDoc(FreshOid(feedback, FeedbackOidSeq),
                             lecture_oid, user_oid, set)}

\* POST /feedback/submit
submit_feedback(payload, now) ==
    /\ UNCHANGED <<lectures, invitations, la, discussion, users,
                   lecSeq, invSeq, pc, loc>>
    /\ IF parse_str(payload.lecture_id) = NULL
          \/ parse_str(payload.user_id) = NULL
       THEN /\ last' = Response("submit_feedback", <<>>, BAD_REQUEST)
            /\ UNCHANGED feedback
       ELSE /\ UpsertFeedback(parse_str(payload.lecture_id),
                              parse_str(payload.user_id),
                              FeedbackSet(payload, now))
            /\ last' = Response("submit_feedback",
                   <<payload.lecture_id, payload.user_id,
                     IF \E d \in feedback :
                           FeedbackKey(d, parse_str(payload.lecture_id),
                                       parse_str(payload.user_id))
                     THEN "existing"
                     ELSE FreshOid(feedback, FeedbackOidSeq)>>, OK)

\* A $group that adds 1 for every matching document whatever its flag, for
\* comparison.
SummaryStatsEveryRecord(matching) ==
    [too_fast |-> Cardinality(matching),
     too_slow |-> Cardinality(matching),
     boring |-> Cardinality(matching),
     bad_question_quality |-> Cardinality(matching)]

\* The aggregation of feedback_summary: $match on lecture_id, then one
\* $group over the matching documents that counts the true flags.  No
\* matching document gives no group, and the counters keep their 0.
SummaryStats(matching) ==
    [too_fast |-> Cardinality({d \in matching : d.too_fast}),
     too_slow |-> Cardinality({d \in matching : d.too_slow}),
     boring |-> Cardinality({d \in matching : d.boring}),
     bad_question_quality |->
         Cardinality({d \in matching : d.bad_question_quality})]

\* A summary without the $match stage, for comparison.
feedback_summary_all(lecture_id) ==
    /\ UNCHANGED <<lectures, invitations, la, feedback, discussion, users,
                   lecSeq, invSeq, pc, loc>>
    /\ IF parse_str(lecture_id) = NULL
       THEN last' = Response("feedback_summary", <<lecture_id>>, BAD_REQUEST)
       ELSE last' = Response("feedback_summary",
                <<lecture_id, SummaryStats(feedback)>>, OK)

\* GET /feedback/lecture/:lecture_id/feedback_summary
feedback_summary(lecture_id) ==
    /\ UNCHANGED <<lectures, invitations, la, feedback, discussion, users,
                   lecSeq, invSeq, pc, loc>>
    /\ IF parse_str(lecture_id) = NULL
       THEN last' = Response("feedback_summary", <<lecture_id>>, BAD_REQUEST)
       ELSE last' = Response("feedback_summary",
                <<lecture_id,
                  SummaryStats({d \in feedback :
                                   d.lecture_id = parse_str(lecture_id)})>>, OK)

-----------------------------------------------------------------------------
(* Discussion log: src/routes/discussion.rs                                *)

\* An append that replaces the poster's earlier messages in the lecture, for
\* comparison.
add_discussion_replace(payload, now) ==
    /\ UNCHANGED <<lectures, invitations, la, feedback, users,
                   lecSeq, invSeq, pc, loc>>
    /\ IF parse_str(payload.lecture_id) = NULL
          \/ parse_str(payload.user_id) = NULL
       THEN /\ last' = Response("add_discussion", <<>>, BAD_REQUEST)
            /\ UNCHANGED discussion
       ELSE /\ HasFreshOid(discussion, DiscussionOidSeq)
            /\ discussion' =
                   {d \in discussion :
                       ~ (/\ d.lecture_id = parse_str(payload.lecture_id)
                          /\ d.user_id = parse_str(payload.user_id))}
                   \cup
                   {[_id |-> FreshOid(discussion, DiscussionOidSeq),
                     lecture_id |-> parse_str(payload.lecture_id),
                     user_id |-> parse_str(payload.user_id),
                     content |-> payload.content,
                     created_at |-> now]}
            /\ last' = Response("add_discussion",
                   <<FreshOid(discussion, DiscussionOidSeq)>>, OK)

\* POST /discussion/add
add_discussion(payload, now) ==
    /\ UNCHANGED <<lectures, invitations, la, feedback, users,
                   lecSeq, invSeq, pc, loc>>
    /\ IF parse_str(payload.lecture_id) = NULL
          \/ parse_str(payload.user_id) = NULL
       THEN /\ last' = Response("add_discussion", <<>>, BAD_REQUEST)
            /\ UNCHANGED discussion
       ELSE /\ HasFreshOid(discussion, DiscussionOidSeq)
            /\ discussion' = discussion \cup
                   {[_id |-> FreshOid(discussion, DiscussionOidSeq),
                     lecture_id |-> parse_str(payload.lecture_id),
                     user_id |-> parse_str(payload.user_id),
                     content |-> payload.content,
                     created_at |-> now]}
            /\ last' = Response("add_discussion",
                   <<FreshOid(discussion, DiscussionOidSeq)>>, OK)

-----------------------------------------------------------------------------
(* User accounts: src/routes/user.rs                                       *)

UserOidSeq == <<"c1", "c2", "c3", "c4">>

\* validate_email on the addresses the model sends.
EmailTable ==
    ("a@b.com" :> TRUE) @@ ("x@y.org" :> TRUE) @@ ("nope" :> FALSE)

validate_email(email) == EmailTable[email]

\* bcrypt: the hash is no plain text, and verify accepts the hash of the
\* same plain text only.
hash_password(password) == <<"bcrypt", password>>

verify_password(plain, hashed) == hashed = <<"bcrypt", plain>>

\* Document::remove and Document::insert on a document held as a record.
doc_remove(d, key) == [k \in DOMAIN d \ {key} |-> d[k]]

doc_insert(d, key, v) ==
    [k \in DOMAIN d \cup {key} |-> IF k = key THEN v ELSE d[k]]

UserFrame == UNCHANGED <<lectures, invitations, la, feedback, discussion,
                         lecSeq, invSeq>>

\* POST /user/register: the e-mail check, before any storage call.
RegisterBegin(p, payload) ==
    /\ pc[p] = "idle"
    /\ UserFrame
    /\ UNCHANGED users
    /\ IF ~validate_email(payload.email)
       THEN /\ last' = Response("register",
                   <<payload.username, payload.email, "Invalid email format">>,
                   BAD_REQUEST)
            /\ UNCHANGED <<pc, loc>>
       ELSE /\ pc' = [pc EXCEPT ![p] = "reg_username"]
            /\ loc' = [loc EXCEPT ![p] = [h |-> "register", payload |-> payload]]
            /\ UNCHANGED last

RegisterReturn(p, code, message) ==
    /\ pc' = [pc EXCEPT ![p] = "idle"]
    /\ loc' = [loc EXCEPT ![p] = Idle]
    /\ last' = Response("register",
           <<loc[p].payload.username, loc[p].payload.email, message>>, code)

\* find_one({username}): a taken username ends the request.
RegisterFindUsername(p) ==
    /\ pc[p] = "reg_username"
    /\ UserFrame
    /\ UNCHANGED users
    /\ IF \E d \in users : d.username = loc[p].payload.username
       THEN RegisterReturn(p, BAD_REQUEST, "username taken")
       ELSE /\ pc' = [pc EXCEPT ![p] = "reg_email"]
            /\ UNCHANGED <<loc, last>>

\* find_one({email}): a registered e-mail ends the request.
RegisterFindEmail(p) ==
    /\ pc[p] = "reg_email"
    /\ UserFrame
    /\ UNCHANGED users
    /\ IF \E d \in users : d.email = loc[p].payload.email
       THEN RegisterReturn(p, BAD_REQUEST, "email registered")
       ELSE /\ pc' = [pc EXCEPT ![p] = "reg_insert"]
            /\ UNCHANGED <<loc, last>>

\* Either find_one fails: unwrap() panics.
RegisterFindFails(p) ==
    /\ pc[p] \in {"reg_username", "reg_email"}
    /\ UserFrame
    /\ UNCHANGED users
    /\ RegisterReturn(p, PANIC, "panic")

UserDoc(id, payload) ==
    [_id |-> id, username |-> payload.username, email |-> payload.email,
     password |-> hash_password(payload.password), role |-> payload.role,
     avatar |-> "/static/uploads/ad08e97b84354e6b9720e877072f28c4.png",
     background |-> "/static/uploads/aa486fc11bd94ab3bd9ef02baa48e357.jpg"]

\* insert_one(user_doc), then the response.
RegisterInsert(p) ==
    /\ pc[p] = "reg_insert"
    /\ UserFrame
    /\ HasFreshOid(users, UserOidSeq)
    /\ users' = users \cup {UserDoc(FreshOid(users, UserOidSeq), loc[p].payload)}
    /\ RegisterReturn(p, OK, "User successfully created")

RegisterInsertFails(p) ==
    /\ pc[p] = "reg_insert"
    /\ UserFrame
    /\ UNCHANGED users
    /\ RegisterReturn(p, INTERNAL_SERVER_ERROR, "database error")

\* POST /user/login: find_one({email}) returns any one matching user.
login(payload) ==
    /\ UserFrame
    /\ UNCHANGED <<users, pc, loc>>
    /\ IF \E d \in users : d.email = payload.email
       THEN \E user \in users :
               /\ user.email = payload.email
               /\ IF ~verify_password(payload.password, user.password)
                  THEN last' = Response("login", <<payload.email, {}>>,
                                        UNAUTHORIZED)
                  ELSE last' = Response("login",
                           <<payload.email,
                             {[id |-> user._id, email |-> payload.email,
                               username |-> user.username,
                               role |-> user.role]}>>, OK)
       ELSE last' = Response("login", <<payload.email, {}>>, UNAUTHORIZED)

\* GET /user: every user, without password, with id in place of _id.
get_all_users ==
    /\ UserFrame
    /\ UNCHANGED <<users, pc, loc>>
    /\ last' = Response("get_all_users",
           <<{doc_remove(doc_insert(doc_remove(d, "password"), "id", d._id),
                         "_id") : d \in users}>>, OK)

\* GET /user/:user_id.  The _id of the serialised document is the object
\* {"$oid": hex}, and its JSON text becomes the id.
get_user(user_id) ==
    /\ UserFrame
    /\ UNCHANGED <<users, pc, loc>>
    /\ IF parse_str(user_id) = NULL
       THEN last' = Response("get_user", <<user_id, {}>>, BAD_REQUEST)
       ELSE IF \E d \in users : d._id = parse_str(user_id)
       THEN \E d \in users :
               /\ d._id = parse_str(user_id)
               /\ last' = Response("get_user",
                      <<user_id,
                        {doc_remove(doc_insert(doc_remove(d, "password"),
                                               "id", <<"$oid", d._id>>),
                                    "_id")}>>, OK)
       ELSE last' = Response("get_user", <<user_id, {}>>, NOT_FOUND)

\* PUT /user/update/:user_id, with the username field of the form (None:
\* the form has no field).  First storage call: find_one({_id}); then the
\* fields are read.
UpdateUserFind(p, user_id, payload) ==
    /\ pc[p] = "idle"
    /\ UserFrame
    /\ UNCHANGED users
    /\ IF parse_str(user_id) = NULL
       THEN /\ last' = Response("update_user", <<user_id, "invalid id">>,
                                BAD_REQUEST)
            /\ UNCHANGED <<pc, loc>>
       ELSE IF ~\E d \in users : d._id = parse_str(user_id)
       THEN /\ last' = Response("update_user", <<user_id, "not found">>,
                                NOT_FOUND)
            /\ UNCHANGED <<pc, loc>>
       ELSE IF payload.username = None
       THEN /\ last' = Response("update_user", <<user_id, "no fields">>,
                                BAD_REQUEST)
            /\ UNCHANGED <<pc, loc>>
       ELSE IF payload.username[1] = ""
       THEN /\ last' = Response("update_user", <<user_id, "username empty">>,
                                BAD_REQUEST)
            /\ UNCHANGED <<pc, loc>>
       ELSE \E db_user \in users :
               /\ db_user._id = parse_str(user_id)
               /\ pc' = [pc EXCEPT ![p] =
                            IF payload.username[1] # db_user.username
                            THEN "upd_check" ELSE "upd_write"]
               /\ loc' = [loc EXCEPT ![p] =
                             [h |-> "update_user", user_id |-> user_id,
                              oid |-> db_user._id,
                              username |-> payload.username[1]]]
               /\ UNCHANGED last

UpdateUserReturn(p, code, message) ==
    /\ pc' = [pc EXCEPT ![p] = "idle"]
    /\ loc' = [loc EXCEPT ![p] = Idle]
    /\ last' = Response("update_user", <<loc[p].user_id, message>>, code)

\* find_one({username}) for a username that differs from the stored one.
UpdateUserCheck(p) ==
    /\ pc[p] = "upd_check"
    /\ UserFrame
    /\ UNCHANGED users
    /\ IF \E d \in users : d.username = loc[p].username
       THEN UpdateUserReturn(p, BAD_REQUEST, "username taken")
       ELSE /\ pc' = [pc EXCEPT ![p] = "upd_write"]
            /\ UNCHANGED <<loc, last>>

\* update_one({_id}, {$set: update_data}), then the response.
UpdateUserWrite(p) ==
    /\ pc[p] = "upd_write"
    /\ UserFrame
    /\ users' \in UpdateOneResults(users,
           {d \in users : d._id = loc[p].oid},
           [d \in users |-> [d EXCEPT !.username = loc[p].username]])
    /\ UpdateUserReturn(p, OK, "updated")

\* GET /LA/present?lecture_id=..: the first storage call finds the present
\* attendance records of the lecture.  An id that does not parse is
\* answered Ok with an error object.
PresentUsersFind(p, lecture_id) ==
    /\ pc[p] = "idle"
    /\ UserFrame
    /\ UNCHANGED users
    /\ IF parse_str(lecture_id) = NULL
       THEN /\ last' = Response("get_present_users",
                   <<lecture_id, "error: invalid lecture_id", {}>>, OK)
            /\ UNCHANGED <<pc, loc>>
       ELSE IF {d \in la : d.lecture_id = parse_str(lecture_id)
                           /\ d.is_present} = {}
       THEN /\ last' = Response("get_present_users",
                   <<lecture_id, "users", {}>>, OK)
            /\ UNCHANGED <<pc, loc>>
       ELSE /\ pc' = [pc EXCEPT ![p] = "present_resolve"]
            /\ loc' = [loc EXCEPT ![p] =
                   [h |-> "get_present_users", lecture_id |-> lecture_id,
                    user_ids |-> {d.audience_id :
                        d \in {x \in la : x.lecture_id = parse_str(lecture_id)
                                          /\ x.is_present}}]]
            /\ UNCHANGED last

\* A resolution that answers NOT_FOUND when one of the ids has no user, for
\* comparison.
PresentUsersResolveStrict(p) ==
    /\ pc[p] = "present_resolve"
    /\ UserFrame
    /\ UNCHANGED users
    /\ pc' = [pc EXCEPT ![p] = "idle"]
    /\ loc' = [loc EXCEPT ![p] = Idle]
    /\ IF \A id \in loc[p].user_ids : \E x \in users : x._id = id
       THEN last' = Response("get_present_users",
                <<loc[p].lecture_id, "users",
                  {doc_insert(d, "_id", d._id) :
                      d \in {x \in users : x._id \in loc[p].user_ids}}>>, OK)
       ELSE last' = Response("get_present_users",
                <<loc[p].lecture_id, "users", {}>>, NOT_FOUND)

\* The second storage call: find({_id: {$in: user_ids}}) on the users; each
\* document is returned with its _id as hex and every other field as stored.
PresentUsersResolve(p) ==
    /\ pc[p] = "present_resolve"
    /\ UserFrame
    /\ UNCHANGED users
    /\ pc' = [pc EXCEPT ![p] = "idle"]
    /\ loc' = [loc EXCEPT ![p] = Idle]
    /\ last' = Response("get_present_users",
           <<loc[p].lecture_id, "users",
             {doc_insert(d, "_id", d._id) :
                 d \in {x \in users : x._id \in loc[p].user_ids}}>>, OK)

-----------------------------------------------------------------------------
(* Listings that join users: feedback_detail_comments of feedback.rs and   *)
(* get_discussions_by_lecture of discussion.rs.  find returns its first    *)
(* batch with the reply, so the handler walks the documents that matched   *)
(* at the find; each find_one on users is a storage call of its own.       *)

\* The name the listings give when the user is missing or has no string
\* username: the literal of feedback.rs 201 and discussion.rs 111 and 122.
UnknownUser == "unknown user"

\* user.as_ref().and_then(|u| u.get_str(key).ok()).unwrap_or(default) for the
\* user with _id = user_oid as find_one returns it.
UserStr(user_oid, key, default) ==
    IF \E u \in users : u._id = user_oid /\ key \in DOMAIN u
    THEN (CHOOSE u \in users : u._id = user_oid /\ key \in DOMAIN u)[key]
    ELSE default

\* The entry feedback_detail_comments pushes for the record fb, with the
\* user as the find_one of this step sees it.
CommentEntry(fb) ==
    [user_id |-> fb.user_id,
     username |-> UserStr(fb.user_id, "username", UnknownUser),
     avatar |-> UserStr(fb.user_id, "avatar", ""),
     comment |-> fb.other]

\* GET /feedback/detail/:lecture_id, up to its first storage call:
\* find({lecture_id, other: {$ne: ""}}).  No match answers the empty list.
CommentsFind(p, lecture_id) ==
    /\ pc[p] = "idle"
    /\ UserFrame
    /\ UNCHANGED users
    /\ IF parse_str(lecture_id) = NULL
       THEN /\ last' = Response("feedback_detail_comments",
                   <<lecture_id, <<>>>>, BAD_REQUEST)
            /\ UNCHANGED <<pc, loc>>
       ELSE IF {d \in feedback : d.lecture_id = parse_str(lecture_id)
                                 /\ d.other # ""} = {}
       THEN /\ last' = Response("feedback_detail_comments",
                   <<lecture_id, <<>>>>, OK)
            /\ UNCHANGED <<pc, loc>>
       ELSE /\ pc' = [pc EXCEPT ![p] = "comments_resolve"]
            /\ loc' = [loc EXCEPT ![p] =
                   [h |-> "feedback_detail_comments",
                    lecture_id |-> lecture_id,
                    cursor |-> {d \in feedback :
                                   d.lecture_id = parse_str(lecture_id)
                                   /\ d.other # ""},
                    comments |-> <<>>]]
            /\ UNCHANGED last

\* The loop body with the entry it pushes: the handler returns after the
\* last record of the cursor.
CommentsPush(p, fb, entry) ==
    IF loc[p].cursor = {fb}
    THEN /\ pc' = [pc EXCEPT ![p] = "idle"]
         /\ loc' = [loc EXCEPT ![p] = Idle]
         /\ last' = Response("feedback_detail_comments",
                <<loc[p].lecture_id, Append(loc[p].comments, entry)>>, OK)
    ELSE /\ loc' = [loc EXCEPT ![p].cursor = @ \ {fb},
                               ![p].comments = Append(@, entry)]
         /\ UNCHANGED <<pc, last>>

\* A loop body that gives up with NOT_FOUND when the submitter is missing,
\* for comparison.
CommentsResolveStrict(p) ==
    /\ pc[p] = "comments_resolve"
    /\ UserFrame
    /\ UNCHANGED users
    /\ \E fb \in loc[p].cursor :
          IF \E u \in users : u._id = fb.user_id
          THEN CommentsPush(p, fb, CommentEntry(fb))
          ELSE /\ pc' = [pc EXCEPT ![p] = "idle"]
               /\ loc' = [loc EXCEPT ![p] = Idle]
               /\ last' = Response("feedback_detail_comments",
                      <<loc[p].lecture_id, <<>>>>, NOT_FOUND)

\* One turn of the loop: the next record of the cursor (the order of a find
\* without sort is the server's), find_one({_id: user_id}) on the users, and
\* the push.
CommentsResolve(p) ==
    /\ pc[p] = "comments_resolve"
    /\ UserFrame
    /\ UNCHANGED users
    /\ \E fb \in loc[p].cursor : CommentsPush(p, fb, CommentEntry(fb))

\* The entry get_discussions_by_lecture pushes for the message doc.
DiscussionOutWithUser(doc) ==
    [id |-> doc._id,
     lecture_id |-> doc.lecture_id,
     user_id |-> doc.user_id,
     content |-> doc.content,
     created_at |-> doc.created_at,
     username |-> UserStr(doc.user_id, "username", UnknownUser),
     avatar |-> UserStr(doc.user_id, "avatar", "")]

\* GET /discussion/lecture/:lecture_id, up to its first storage call:
\* find({lecture_id}).
DiscussionsFind(p, lecture_id) ==
    /\ pc[p] = "idle"
    /\ UserFrame
    /\ UNCHANGED users
    /\ IF parse_str(lecture_id) = NULL
       THEN /\ last' = Response("get_discussions_by_lecture",
                   <<lecture_id, <<>>>>, BAD_REQUEST)
            /\ UNCHANGED <<pc, loc>>
       ELSE IF {d \in discussion : d.lecture_id = parse_str(lecture_id)} = {}
       THEN /\ last' = Response("get_discussions_by_lecture",
                   <<lecture_id, <<>>>>, OK)
            /\ UNCHANGED <<pc, loc>>
       ELSE /\ pc' = [pc EXCEPT ![p] = "discussions_resolve"]
            /\ loc' = [loc EXCEPT ![p] =
                   [h |-> "get_discussions_by_lecture",
                    lecture_id |-> lecture_id,
                    cursor |-> {d \in discussion :
                                   d.lecture_id = parse_str(lecture_id)},
                    list |-> <<>>]]
            /\ UNCHANGED last

\* One turn of the loop: the next message of the cursor, find_one on the
\* users, and the push; the handler returns after the last message.
DiscussionsResolve(p) ==
    /\ pc[p] = "discussions_resolve"
    /\ UserFrame
    /\ UNCHANGED users
    /\ \E doc \in loc[p].cursor :
          IF loc[p].cursor = {doc}
          THEN /\ pc' = [pc EXCEPT ![p] = "idle"]
               /\ loc' = [loc EXCEPT ![p] = Idle]
               /\ last' = Response("get_discussions_by_lecture",
                      <<loc[p].lecture_id,
                        Append(loc[p].list, DiscussionOutWithUser(doc))>>, OK)
          ELSE /\ loc' = [loc EXCEPT ![p].cursor = @ \ {doc},
                                     ![p].list =
                                        Append(@, DiscussionOutWithUser(doc))]
               /\ UNCHANGED <<pc, last>>

-----------------------------------------------------------------------------
(* Lecture registry, continued: update_lecture of src/routes/lecture.rs     *)

\* serde_json::Value of LectureUpdate.start_time: a string, a number (as_i64
\* is None for a number that is no i64, such as 1.5), or any other value.
JsonString(s) == [kind |-> "String", s |-> s, as_i64 |-> None]

JsonNumber(as_i64) == [kind |-> "Number", s |-> "", as_i64 |-> as_i64]

JsonBool == [kind |-> "Bool", s |-> "", as_i64 |-> None]

\* The match on start_time: the arms that return BAD_REQUEST.
StartTimeInvalid(st) ==
    /\ st # None
    /\ \/ st[1].kind = "String" /\ parse_from_rfc3339(st[1].s) = -1
       \/ st[1].kind = "Number" /\ st[1].as_i64 = None
       \/ st[1].kind \notin {"String", "Number"}

\* ts_ms of a start_time that passed the match.
StartTimeMs(v) ==
    IF v.kind = "String" THEN parse_from_rfc3339(v.s) ELSE v.as_i64[1]

\* doc! {} and `if cond { set_doc.insert(key, value) }`.
EmptyDoc == [k \in {} |-> NULL]

DocField(key, cond, value) == IF cond THEN key :> value ELSE EmptyDoc

\* set_doc of update_lecture: one key for each field the payload carries; a
\* blank speaker_id becomes null, a blank organizer_id is dropped.
UpdateSetDoc(payload) ==
    DocField("topic", payload.topic # None, payload.topic[1])
    @@ DocField("description", payload.description # None,
                payload.description[1])
    @@ DocField("duration", payload.duration # None, payload.duration[1])
    @@ DocField("status", payload.status # None, payload.status[1])
    @@ DocField("speaker_id", payload.speaker_id # None,
                IF trim(payload.speaker_id[1]) = "" THEN NULL
                ELSE trim(payload.speaker_id[1]))
    @@ DocField("organizer_id",
                payload.organizer_id # None
                    /\ trim(payload.organizer_id[1]) # "",
                trim(payload.organizer_id[1]))
    @@ DocField("start_time", payload.start_time # None,
                StartTimeMs(payload.start_time[1]))

\* {$set: set_doc} applied to a document.
ApplySet(d, set_doc) ==
    [k \in DOMAIN d \cup DOMAIN set_doc |->
        IF k \in DOMAIN set_doc THEN set_doc[k] ELSE d[k]]

UpdateLectureFrame ==
    UNCHANGED <<invitations, la, feedback, discussion, users, lecSeq, invSeq>>

\* {$set: set_doc} that also puts every field outside set_doc back to the
\* value of a new lecture, for comparison.
UpdateLectureWriteReplace(p, lecture_id, payload) ==
    /\ pc[p] = "idle"
    /\ UpdateLectureFrame
    /\ IF \/ parse_str(lecture_id) = NULL
          \/ StartTimeInvalid(payload.start_time)
          \/ DOMAIN UpdateSetDoc(payload) = {}
       THEN /\ last' = Response("update_lecture", <<lecture_id, {}>>,
                                BAD_REQUEST)
            /\ UNCHANGED <<lectures, pc, loc>>
       ELSE IF ~ \E d \in lectures : d._id = parse_str(lecture_id)
       THEN /\ last' = Response("update_lecture", <<lecture_id, {}>>,
                                NOT_FOUND)
            /\ UNCHANGED <<lectures, pc, loc>>
       ELSE /\ lectures' \in UpdateOneResults(lectures,
                   {d \in lectures : d._id = parse_str(lecture_id)},
                   [d \in lectures |->
                       ApplySet([d EXCEPT !.topic = "", !.description = "",
                                          !.duration = 0, !.status = 0,
                                          !.speaker_id = NULL],
                                UpdateSetDoc(payload))])
            /\ pc' = [pc EXCEPT ![p] = "update_read"]
            /\ loc' = [loc EXCEPT ![p] =
                   [h |-> "update_lecture", lecture_id |-> lecture_id,
                    oid |-> parse_str(lecture_id),
                    result |-> [matched_count |-> 1,
                                modified_count |->
                                    IF lectures' # lectures THEN 1 ELSE 0]]]
            /\ UNCHANGED last

\* PUT /lecture/:lecture_id up to the first storage call: the id is parsed,
\* set_doc is built, an empty set_doc is refused, then
\* update_one({_id: oid}, {$set: set_doc}) and the test of matched_count.
UpdateLectureWrite(p, lecture_id, payload) ==
    /\ pc[p] = "idle"
    /\ UpdateLectureFrame
    /\ IF \/ parse_str(lecture_id) = NULL
          \/ StartTimeInvalid(payload.start_time)
          \/ DOMAIN UpdateSetDoc(payload) = {}
       THEN /\ last' = Response("update_lecture", <<lecture_id, {}>>,
                                BAD_REQUEST)
            /\ UNCHANGED <<lectures, pc, loc>>
       ELSE IF ~ \E d \in lectures : d._id = parse_str(lecture_id)
       THEN /\ last' = Response("update_lecture", <<lecture_id, {}>>,
                                NOT_FOUND)
            /\ UNCHANGED <<lectures, pc, loc>>
       ELSE /\ lectures' \in UpdateOneResults(lectures,
                   {d \in lectures : d._id = parse_str(lecture_id)},
                   [d \in lectures |-> ApplySet(d, UpdateSetDoc(payload))])
            /\ pc' = [pc EXCEPT ![p] = "update_read"]
            /\ loc' = [loc EXCEPT ![p] =
                   [h |-> "update_lecture", lecture_id |-> lecture_id,
                    oid |-> parse_str(lecture_id),
                    result |-> [matched_count |-> 1,
                                modified_count |->
                                    IF lectures' # lectures THEN 1 ELSE 0]]]
            /\ UNCHANGED last

\* update_lecture, second storage call: find_one({_id: oid}) reads the
\* lecture back; the response carries it with "id" in place of "_id".
UpdateLectureRead(p) ==
    /\ pc[p] = "update_read"
    /\ UpdateLectureFrame
    /\ UNCHANGED lectures
    /\ pc' = [pc EXCEPT ![p] = "idle"]
    /\ loc' = [loc EXCEPT ![p] = Idle]
    /\ IF \E d \in lectures : d._id = loc[p].oid
       THEN \E d \in lectures :
               /\ d._id = loc[p].oid
               /\ last' = Response("update_lecture",
                      <<loc[p].lecture_id,
                        {doc_remove(doc_insert(d, "id", loc[p].lecture_id),
                                    "_id")}>>, OK)
       ELSE last' = Response("update_lecture", <<loc[p].lecture_id, {}>>,
                             NOT_FOUND)

\* update_lecture: the find_one after the write fails.
UpdateLectureReadFails(p) ==
    /\ pc[p] = "update_read"
    /\ UpdateLectureFrame
    /\ UNCHANGED lectures
    /\ pc' = [pc EXCEPT ![p] = "idle"]
    /\ loc' = [loc EXCEPT ![p] = Idle]
    /\ last' = Response("update_lecture", <<loc[p].lecture_id, {}>>,
                        INTERNAL_SERVER_ERROR)

-----------------------------------------------------------------------------
(* The server starts on empty collections with no request in flight.       *)

Init ==
    /\ lectures = {}
    /\ invitations = {}
    /\ la = {}
    /\ feedback = {}
    /\ discussion = {}
    /\ users = {}
    /\ lecSeq = 0
    /\ invSeq = 0
    /\ pc = [p \in Procs |-> "idle"]
    /\ loc = [p \in Procs |-> Idle]
    /\ last = Response("none", <<>>, OK)

-----------------------------------------------------------------------------
(* Lecture creation and deletion by concurrent requests.                   *)

NextCode ==
    \/ \E p \in Procs, payload \in LectureCreatePayloads :
          /\ lecSeq + InFlightCreates < MaxLectures
          /\ CreateLectureBegin(p, payload)
    \/ \E p \in Procs, code \in Codes : GenerateProbe(p, code)
    \/ \E p \in Procs : GenerateProbeFails(p)
    \/ \E p \in Procs : CreateLectureInsert(p)
    \/ \E p \in Procs : CreateLectureInsertFails(p)
    \/ \E id \in {"a1", "A1", "a2", "zz"} : delete_lecture(id)
    \/ \E id \in {"c2", "zz"} : list_by_organizer(id)
    \/ \E id \in {"c1", "zz"} : get_by_speaker(id)
    \/ \E p \in Procs, id \in {"a1", "zz"} : PresentUsersFind(p, id)

SpecCode == Init /\ [][NextCode]_vars

\* The scheduler runs every request that can take a step, and a draw that
\* is free infinitely often is drawn: thread_rng is uniform over the range.
FairSpecCode ==
    /\ SpecCode
    /\ \A p \in Procs : WF_vars(\E code \in Codes : GenerateProbe(p, code))
    /\ \A p \in Procs :
          SF_vars(\E code \in Codes : ~CodeTaken(code) /\ GenerateProbe(p, code))
    /\ \A p \in Procs : WF_vars(CreateLectureInsert(p))

-----------------------------------------------------------------------------
(* The invitation workflow under a client that sends one request at a      *)
(* time: a request starts when no other is in flight.  p1 serves accept,   *)
(* p2 serves create_lecture.                                               *)

MaxAcceptLectures == 1
MaxAcceptInvitations == 1

NoRequestInFlight == \A p \in Procs : pc[p] = "idle"

AcceptLecturePayload ==
    [topic |-> "t1", start_time |-> "1970-01-01T00:00:01Z", duration |-> 60,
     description |-> None, speaker_id |-> None, organizer_id |-> "c2",
     status |-> 0]

NextAccept ==
    \/ /\ NoRequestInFlight
       /\ lecSeq < MaxAcceptLectures
       /\ CreateLectureBegin("p2", AcceptLecturePayload)
    \/ \E code \in Codes : GenerateProbe("p2", code)
    \/ CreateLectureInsert("p2")
    \/ \E id \in {"a1"} : NoRequestInFlight /\ delete_lecture(id)
    \/ \E payload \in [lecture_id : {"a1", "a2"}, speaker_id : {"c1", "C2"},
                       status : {Pending}] :
          /\ NoRequestInFlight
          /\ invSeq < MaxAcceptInvitations
          /\ create_invitation(payload)
    \/ \E id \in {"b1", "zz"},
          payload \in [lecture_id : {"a1"}, speaker_id : {"c1", "c2"},
                       status : {Pending, Accepted}] :
          NoRequestInFlight /\ update_invitation(id, payload)
    \/ \E id \in {"b1", "b2"} : NoRequestInFlight /\ delete_invitation(id)
    \/ \E id \in {"b1", "b2", "b3"} : NoRequestInFlight /\ get_invitation(id)
    \/ \E id \in {"b1", "B1", "b2", "b3", "zz"} :
          NoRequestInFlight /\ AcceptFind("p1", id)
    \/ \E id \in {"b1"} : NoRequestInFlight /\ AcceptFindFails("p1", id)
    \/ AcceptSetStatus("p1")
    \/ AcceptSetStatusFails("p1")
    \/ AcceptSetSpeaker("p1")
    \/ AcceptSetSpeakerFails("p1")

SpecAccept == Init /\ [][NextAccept]_vars

-----------------------------------------------------------------------------
(* The attendance ledger on its own.                                       *)

LaRoom == Cardinality(la) < MaxLA

NextLA ==
    \/ \E payload \in [lecture_id : {"a1", "a2"}, audience_id : {"c1", "zz"},
                       is_present : {None, Some(TRUE)}, joined_at : {None}],
          now \in Times :
          LaRoom /\ add_la(payload, now)
    \/ \E data \in [lecture_id : {"a1", "zz"}, audience_id : {"c1"}],
          now \in Times :
          LaRoom /\ create_la_entry(data, now)
    \/ \E payload \in [lecture_id : {"a1", "a2", "zz"}, audience_id : {"c1"},
                       is_present : BOOLEAN],
          now \in Times :
          /\ LaRoom \/ \E d \in la : LaKey(d, parse_str(payload.lecture_id),
                                           parse_str(payload.audience_id))
          /\ update_is_present(payload, now)
    \/ \E lecture_id \in {"a1", "a2"}, audience_id \in {"c1", NULL} :
          delete_la(lecture_id, audience_id)
    \/ \E lecture_id \in {"a1", "zz"} : delete_la_by_lid(lecture_id)

SpecLA == Init /\ [][NextLA]_vars

-----------------------------------------------------------------------------
(* The feedback aggregator on its own.                                     *)

FeedbackFlagInputs ==
    {[too_fast |-> Some(TRUE), too_slow |-> None, boring |-> Some(FALSE),
      bad_question_quality |-> Some(TRUE), other |-> Some("too dense")],
     [too_fast |-> None, too_slow |-> Some(TRUE), boring |-> Some(TRUE),
      bad_question_quality |-> None, other |-> Some("")],
     [too_fast |-> None, too_slow |-> None, boring |-> None,
      bad_question_quality |-> None, other |-> None]}

FeedbackPayload(lecture_id, user_id, f) ==
    [lecture_id |-> lecture_id, user_id |-> user_id,
     too_fast |-> f.too_fast, too_slow |-> f.too_slow, boring |-> f.boring,
     bad_question_quality |-> f.bad_question_quality, other |-> f.other]

NextFeedback ==
    \/ \E lecture_id \in {"a1", "a2", "zz"}, user_id \in {"c1", "C2"},
          f \in FeedbackFlagInputs, now \in Times :
          /\ \/ Cardinality(feedback) < MaxFeedback
             \/ \E d \in feedback : FeedbackKey(d, parse_str(lecture_id),
                                                parse_str(user_id))
          /\ submit_feedback(FeedbackPayload(lecture_id, user_id, f), now)
    \/ \E lecture_id \in {"a2", "zz"} : feedback_summary(lecture_id)

SpecFeedback == Init /\ [][NextFeedback]_vars

-----------------------------------------------------------------------------
(* A lecture with its dependent records, and its deletion.                 *)

MaxTeardownLectures == 1
MaxTeardownDocs == 1

NextTeardown ==
    \/ /\ pc["p2"] = "idle"
       /\ lecSeq < MaxTeardownLectures
       /\ CreateLectureBegin("p2", AcceptLecturePayload)
    \/ \E code \in Codes : GenerateProbe("p2", code)
    \/ CreateLectureInsert("p2")
    \/ \E id \in {"a1", "a2"} : delete_lecture(id)
    \/ /\ invSeq < MaxTeardownDocs
       /\ create_invitation([lecture_id |-> "a1", speaker_id |-> "c1",
                             status |-> Pending])
    \/ \E id \in {"b1", "b2"} : get_invitation(id)
    \/ /\ Cardinality(la) < MaxTeardownDocs
       /\ create_la_entry([lecture_id |-> "a1", audience_id |-> "c1"], 1)
    \/ /\ Cardinality(feedback) < MaxTeardownDocs
       /\ submit_feedback(FeedbackPayload("a1", "c1",
              [too_fast |-> Some(TRUE), too_slow |-> None, boring |-> None,
               bad_question_quality |-> None, other |-> Some("too dense")]), 1)
    \/ /\ Cardinality(discussion) < MaxTeardownDocs
       /\ add_discussion([lecture_id |-> "a1", user_id |-> "c1",
                          content |-> "hello"], 1)

SpecTeardown == Init /\ [][NextTeardown]_vars

-----------------------------------------------------------------------------
(* User accounts under concurrent requests, with attendance of lecture a1. *)

MaxUsers == 2

RegisterPayloads ==
    {[username |-> "u1", email |-> "a@b.com", password |-> "pw1", role |-> 0],
     [username |-> "u2", email |-> "a@b.com", password |-> "pw2", role |-> 1],
     [username |-> "u1", email |-> "x@y.org", password |-> "pw1", role |-> 0],
     [username |-> "u3", email |-> "nope", password |-> "pw1", role |-> 0]}

LoginPayloads == [email : {"a@b.com", "x@y.org"}, password : {"pw1", "pw2"}]

InFlightRegisters ==
    Cardinality({p \in Procs :
                    pc[p] \in {"reg_username", "reg_email", "reg_insert"}})

NextUser ==
    \/ \E p \in Procs, payload \in RegisterPayloads :
          /\ Cardinality(users) + InFlightRegisters < MaxUsers
          /\ RegisterBegin(p, payload)
    \/ \E p \in Procs : RegisterFindUsername(p)
    \/ \E p \in Procs : RegisterFindEmail(p)
    \/ \E p \in Procs : RegisterFindFails(p)
    \/ \E p \in Procs : RegisterInsert(p)
    \/ \E p \in Procs : RegisterInsertFails(p)
    \/ \E payload \in LoginPayloads : login(payload)
    \/ get_all_users
    \/ \E id \in {"C1", "zz"} : get_user(id)
    \/ \E id \in {"c1", "zz"}, username \in {None, Some(""), Some("u2")} :
          UpdateUserFind("p1", id, [username |-> username])
    \/ UpdateUserCheck("p1")
    \/ UpdateUserWrite("p1")
    \/ update_is_present([lecture_id |-> "a1", audience_id |-> "c1",
                          is_present |-> TRUE], 1)
    \/ \E id \in {"a1", "zz"} : PresentUsersFind("p1", id)
    \/ PresentUsersResolve("p1")

SpecUser == Init /\ [][NextUser]_vars

-----------------------------------------------------------------------------
(* The workflow handlers of invitation.rs, la.rs, feedback.rs and          *)
(* discussion.rs running against one lecture, one request at a time.       *)

MaxWorkflowLectures == 1
MaxWorkflowDocs == 1
MaxWorkflowSideDocs == 1

\* Room for one more attendance, feedback or discussion document.
WorkflowRoom ==
    Cardinality(la) + Cardinality(feedback) + Cardinality(discussion)
        < MaxWorkflowSideDocs

NextWorkflow ==
    \/ /\ NoRequestInFlight
       /\ lecSeq < MaxWorkflowLectures
       /\ CreateLectureBegin("p2", AcceptLecturePayload)
    \/ \E code \in Codes : GenerateProbe("p2", code)
    \/ CreateLectureInsert("p2")
    \/ /\ NoRequestInFlight
       /\ invSeq < MaxWorkflowDocs
       /\ create_invitation([lecture_id |-> "a1", speaker_id |-> "c1",
                             status |-> Pending])
    \/ \E id \in {"b1"} : NoRequestInFlight /\ get_invitation(id)
    \/ \E id \in {"b1"} :
          /\ NoRequestInFlight
          /\ update_invitation(id, [lecture_id |-> "a1", speaker_id |-> "c2",
                                    status |-> Pending])
    \/ \E id \in {"b1"} : NoRequestInFlight /\ delete_invitation(id)
    \/ \E lecture_id \in {"a1"} :
          NoRequestInFlight /\ delete_invitation_by_lid(lecture_id)
    \/ \E id \in {"b1", "zz"} : NoRequestInFlight /\ AcceptFind("p1", id)
    \/ \E id \in {"b1"} : NoRequestInFlight /\ AcceptFindFails("p1", id)
    \/ AcceptSetStatus("p1")
    \/ AcceptSetStatusFails("p1")
    \/ AcceptSetSpeaker("p1")
    \/ AcceptSetSpeakerFails("p1")
    \/ /\ NoRequestInFlight
       /\ WorkflowRoom
       /\ add_la([lecture_id |-> "a1", audience_id |-> "c1",
                  is_present |-> None, joined_at |-> None], 1)
    \/ /\ NoRequestInFlight
       /\ WorkflowRoom
       /\ create_la_entry([lecture_id |-> "a1", audience_id |-> "c2"], 1)
    \/ /\ NoRequestInFlight
       /\ WorkflowRoom \/ \E d \in la : LaKey(d, "a1", "c1")
       /\ update_is_present([lecture_id |-> "a1", audience_id |-> "c1",
                             is_present |-> TRUE], 1)
    \/ \E audience_id \in {"c1", "c2"} :
          NoRequestInFlight /\ delete_la("a1", audience_id)
    \/ \E lecture_id \in {"a1"} :
          NoRequestInFlight /\ delete_la_by_lid(lecture_id)
    \/ /\ NoRequestInFlight
       /\ WorkflowRoom \/ \E d \in feedback : FeedbackKey(d, "a1", "c1")
       /\ submit_feedback(FeedbackPayload("a1", "c1",
              [too_fast |-> Some(TRUE), too_slow |-> None, boring |-> None,
               bad_question_quality |-> None, other |-> None]), 1)
    \/ \E lecture_id \in {"a1"} :
          NoRequestInFlight /\ feedback_summary(lecture_id)
    \/ /\ NoRequestInFlight
       /\ WorkflowRoom
       /\ add_discussion([lecture_id |-> "a1", user_id |-> "c1",
                          content |-> "hello"], 1)

SpecWorkflow == Init /\ [][NextWorkflow]_vars

-----------------------------------------------------------------------------
(* The lecture registry under updates and deletions that run while other   *)
(* requests are in flight: p1 serves update_lecture, p2 create_lecture.    *)

MaxUpdateLectures == 2

NoLectureUpdate ==
    [topic |-> None, start_time |-> None, duration |-> None,
     description |-> None, speaker_id |-> None, organizer_id |-> None,
     status |-> None]

LectureUpdatePayloads ==
    {NoLectureUpdate,
     [NoLectureUpdate EXCEPT !.topic = Some("t2")],
     [NoLectureUpdate EXCEPT !.speaker_id = Some(" c1 ")],
     [NoLectureUpdate EXCEPT !.speaker_id = Some("  ")],
     [NoLectureUpdate EXCEPT !.organizer_id = Some("  ")],
     [NoLectureUpdate EXCEPT !.start_time =
                                 Some(JsonString("1970-01-01T01:00:02+01:00")),
                             !.duration = Some(90)],
     [NoLectureUpdate EXCEPT !.start_time = Some(JsonNumber(Some(2000)))],
     [NoLectureUpdate EXCEPT !.topic = Some("t2"),
                             !.start_time = Some(JsonString("soon"))],
     [NoLectureUpdate EXCEPT !.topic = Some("t2"),
                             !.start_time = Some(JsonNumber(None))],
     [NoLectureUpdate EXCEPT !.topic = Some("t2"),
                             !.start_time = Some(JsonBool)]}

UpdateLectureIds == {"a1", "A1", "a3", "zz"}

\* The draws of the code generator in this specification.
UpdateCodes == {CodeLo, CodeLo + 1}

NextUpdate ==
    \/ /\ pc["p2"] = "idle"
       /\ lecSeq < MaxUpdateLectures
       /\ CreateLectureBegin("p2", AcceptLecturePayload)
    \/ \E code \in UpdateCodes : GenerateProbe("p2", code)
    \/ CreateLectureInsert("p2")
    \/ \E id \in UpdateLectureIds, payload \in LectureUpdatePayloads :
          UpdateLectureWrite("p1", id, payload)
    \/ UpdateLectureRead("p1")
    \/ UpdateLectureReadFails("p1")
    \/ \E id \in {"a1", "a2", "zz"} : delete_lecture(id)

SpecUpdate == Init /\ [][NextUpdate]_vars

-----------------------------------------------------------------------------
(* The teardown of a lecture by its caller: the deletion of the lecture    *)
(* and the bulk deletes by lecture that the routers expose.                *)

NextCleanup ==
    \/ NextTeardown
    \/ /\ invSeq < MaxTeardownDocs
       /\ create_invitation([lecture_id |-> "a2", speaker_id |-> "c1",
                             status |-> Pending])
    \/ \E lecture_id \in {"a1", "zz"} : delete_invitation_by_lid(lecture_id)
    \/ \E lecture_id \in {"a1", "zz"} : delete_la_by_lid(lecture_id)

SpecCleanup == Init /\ [][NextCleanup]_vars

-----------------------------------------------------------------------------
(* The listing of present users: attendance of users that exist and of     *)
(* users that do not.  p1 serves get_present_users, p2 serves register.    *)

MaxPresentUsers == 1
MaxPresentLA == 2

PresenceInputs ==
    {[lecture_id |-> "a1", audience_id |-> "c1", is_present |-> TRUE],
     [lecture_id |-> "a1", audience_id |-> "c1", is_present |-> FALSE],
     [lecture_id |-> "a1", audience_id |-> "c2", is_present |-> TRUE],
     [lecture_id |-> "a2", audience_id |-> "c1", is_present |-> TRUE]}

NextPresent ==
    \/ \E payload \in RegisterPayloads :
          /\ Cardinality(users) + InFlightRegisters < MaxPresentUsers
          /\ RegisterBegin("p2", payload)
    \/ RegisterFindUsername("p2")
    \/ RegisterFindEmail("p2")
    \/ RegisterInsert("p2")
    \/ \E payload \in PresenceInputs :
          /\ \/ Cardinality(la) < MaxPresentLA
             \/ \E d \in la : LaKey(d, payload.lecture_id, payload.audience_id)
          /\ update_is_present(payload, 1)
    \/ \E id \in {"a1", "zz"} : PresentUsersFind("p1", id)
    \/ PresentUsersResolve("p1")

SpecPresent == Init /\ [][NextPresent]_vars

-----------------------------------------------------------------------------
(* The comment listing of a lecture while feedback is submitted and a user *)
(* registers.                                                              *)

MaxCommentDocs == 3
MaxCommentUsers == 1

ListingRegisterPayload ==
    [username |-> "u1", email |-> "a@b.com", password |-> "pw1", role |-> 0]

\* Submissions with and without text, by the user that registers (c1) and
\* by one that never does (c2), for lecture a1 and for another lecture.
CommentInputs ==
    {FeedbackPayload("a1", "c1",
         [too_fast |-> Some(TRUE), too_slow |-> None, boring |-> None,
          bad_question_quality |-> None, other |-> Some("too dense")]),
     FeedbackPayload("a1", "c1",
         [too_fast |-> None, too_slow |-> None, boring |-> None,
          bad_question_quality |-> None, other |-> None]),
     FeedbackPayload("a1", "c2",
         [too_fast |-> None, too_slow |-> Some(TRUE), boring |-> None,
          bad_question_quality |-> None, other |-> Some("more examples")]),
     FeedbackPayload("a1", "c3",
         [too_fast |-> None, too_slow |-> None, boring |-> Some(TRUE),
          bad_question_quality |-> None, other |-> Some("")]),
     FeedbackPayload("a2", "c1",
         [too_fast |-> None, too_slow |-> None, boring |-> None,
          bad_question_quality |-> None, other |-> Some("too dense")])}

NextComments ==
    \/ /\ Cardinality(users) + InFlightRegisters < MaxCommentUsers
       /\ RegisterBegin("p2", ListingRegisterPayload)
    \/ RegisterFindUsername("p2")
    \/ RegisterFindEmail("p2")
    \/ RegisterInsert("p2")
    \/ \E payload \in CommentInputs :
          /\ \/ Cardinality(feedback) < MaxCommentDocs
             \/ \E d \in feedback :
                   FeedbackKey(d, parse_str(payload.lecture_id),
                               parse_str(payload.user_id))
          /\ submit_feedback(payload, 1)
    \/ \E id \in {"a1", "A1", "zz"} : CommentsFind("p1", id)
    \/ CommentsResolve("p1")

SpecComments == Init /\ [][NextComments]_vars

-----------------------------------------------------------------------------
(* The discussion log of a lecture while messages are appended, a user     *)
(* registers, and the lecture and its invitations and attendance are       *)
(* deleted.                                                                *)

MaxLogLectures == 1
MaxLogDocs == 2
MaxLogUsers == 1

\* Messages of the user that registers (c1) and of one that never does
\* (c2), in lecture a1 and in another lecture, and one with a malformed id.
DiscussionInputs ==
    {[lecture_id |-> "a1", user_id |-> "c1", content |-> "hello"],
     [lecture_id |-> "a1", user_id |-> "c2", content |-> "hi"],
     [lecture_id |-> "a2", user_id |-> "c1", content |-> "hello"],
     [lecture_id |-> "zz", user_id |-> "c1", content |-> "hello"]}

NextLog ==
    \/ /\ pc["p2"] = "idle"
       /\ lecSeq < MaxLogLectures
       /\ CreateLectureBegin("p2", AcceptLecturePayload)
    \/ GenerateProbe("p2", CodeLo)
    \/ CreateLectureInsert("p2")
    \/ delete_lecture("a1")
    \/ delete_invitation_by_lid("a1")
    \/ delete_la_by_lid("a1")
    \/ /\ Cardinality(users) + InFlightRegisters < MaxLogUsers
       /\ RegisterBegin("p2", ListingRegisterPayload)
    \/ RegisterFindUsername("p2")
    \/ RegisterFindEmail("p2")
    \/ RegisterInsert("p2")
    \/ \E payload \in DiscussionInputs :
          /\ Cardinality(discussion) < MaxLogDocs
          /\ add_discussion(payload, 1)
    \/ \E id \in {"a1", "zz"} : DiscussionsFind("p1", id)
    \/ DiscussionsResolve("p1")

SpecLog == Init /\ [][NextLog]_vars

-----------------------------------------------------------------------------
(* Invitations and attendance records of two lectures: creations, single   *)
(* deletes and the bulk deletes by lecture.                                *)

MaxRecordInvitations == 3
MaxRecordLA == 2

InvitationInputs ==
    {[lecture_id |-> "a1", speaker_id |-> "c1", status |-> Pending],
     [lecture_id |-> "a1", speaker_id |-> "c1", status |-> Accepted],
     [lecture_id |-> "a2", speaker_id |-> "c1", status |-> Pending],
     [lecture_id |-> "zz", speaker_id |-> "c1", status |-> Pending],
     [lecture_id |-> "a1", speaker_id |-> "zz", status |-> Pending]}

AttendanceInputs ==
    {[lecture_id |-> "a1", audience_id |-> "c1", is_present |-> None,
      joined_at |-> None],
     [lecture_id |-> "a1", audience_id |-> "c2", is_present |-> Some(TRUE),
      joined_at |-> None],
     [lecture_id |-> "a2", audience_id |-> "c1", is_present |-> None,
      joined_at |-> None]}

BulkDeleteIds == {"a1", "A1", "a3", "zz"}

NextRecords ==
    \/ \E payload \in InvitationInputs :
          /\ invSeq < MaxRecordInvitations
          /\ create_invitation(payload)
    \/ delete_invitation("b1")
    \/ \E lecture_id \in BulkDeleteIds : delete_invitation_by_lid(lecture_id)
    \/ \E payload \in AttendanceInputs :
          /\ Cardinality(la) < MaxRecordLA
          /\ add_la(payload, 1)
    \/ \E lecture_id \in {"a1", "a2", "zz"}, audience_id \in {"c1", "c2", NULL} :
          delete_la(lecture_id, audience_id)
    \/ \E lecture_id \in BulkDeleteIds : delete_la_by_lid(lecture_id)

SpecRecords == Init /\ [][NextRecords]_vars

-----------------------------------------------------------------------------
(* Lecture creation with well-formed and malformed payloads, with a blank  *)
(* speaker_id and with one in surrounding blanks.                          *)

MaxCreateLectures == 2

CreateInputs ==
    [topic : {"t1"},
     start_time : {"1970-01-01T00:00:01Z", "soon"},
     duration : {60},
     description : {None},
     speaker_id : {Some("  "), Some(" c1 ")},
     organizer_id : {"c2", "zz"},
     status : {0}]

NextCreate ==
    \/ \E p \in Procs, payload \in CreateInputs :
          /\ lecSeq + InFlightCreates < MaxCreateLectures
          /\ CreateLectureBegin(p, payload)
    \/ \E p \in Procs, code \in UpdateCodes : GenerateProbe(p, code)
    \/ \E p \in Procs : CreateLectureInsert(p)
    \/ \E id \in {"a1", "zz"} : delete_lecture(id)
    \/ \E id \in {"c1", "zz"} : get_by_speaker(id)

SpecCreate == Init /\ [][NextCreate]_vars

-----------------------------------------------------------------------------
(* accept with two lectures and two invitations, one request at a time.    *)

MaxSoloLectures == 2
MaxSoloInvitations == 2

SoloInvitationInputs ==
    {[lecture_id |-> "a1", speaker_id |-> "c1", status |-> Pending],
     [lecture_id |-> "a1", speaker_id |-> "c3", status |-> Pending],
     [lecture_id |-> "a2", speaker_id |-> "c1", status |-> Pending]}

NextSolo ==
    \/ /\ NoRequestInFlight
       /\ lecSeq < MaxSoloLectures
       /\ CreateLectureBegin("p2", AcceptLecturePayload)
    \/ \E code \in UpdateCodes : GenerateProbe("p2", code)
    \/ CreateLectureInsert("p2")
    \/ NoRequestInFlight /\ delete_lecture("a1")
    \/ \E payload \in SoloInvitationInputs :
          /\ NoRequestInFlight
          /\ invSeq < MaxSoloInvitations
          /\ create_invitation(payload)
    \/ \E id \in {"b1", "b2"} : NoRequestInFlight /\ AcceptFind("p1", id)
    \/ AcceptSetStatus("p1")
    \/ AcceptSetSpeaker("p1")

SpecSolo == Init /\ [][NextSolo]_vars

-----------------------------------------------------------------------------
(* accept under concurrent requests: two accepts at a time, and updates of *)
(* invitation b1 at any moment.                                            *)

MaxRaceLectures == 2
MaxRaceInvitations == 2

RaceInvitationInputs ==
    {[lecture_id |-> "a1", speaker_id |-> "c1", status |-> Pending],
     [lecture_id |-> "a1", speaker_id |-> "c3", status |-> Pending]}

RaceUpdateInputs ==
    {[lecture_id |-> "a1", speaker_id |-> "c2", status |-> Pending],
     [lecture_id |-> "a2", speaker_id |-> "c1", status |-> Accepted]}

NextRace ==
    \/ /\ pc["p2"] = "idle"
       /\ lecSeq < MaxRaceLectures
       /\ CreateLectureBegin("p2", AcceptLecturePayload)
    \/ \E code \in UpdateCodes : GenerateProbe("p2", code)
    \/ CreateLectureInsert("p2")
    \/ \E payload \in RaceInvitationInputs :
          /\ invSeq < MaxRaceInvitations
          /\ create_invitation(payload)
    \/ \E payload \in RaceUpdateInputs : update_invitation("b1", payload)
    \/ \E p \in Procs, id \in {"b1", "b2"} : AcceptFind(p, id)
    \/ \E p \in Procs : AcceptSetStatus(p)
    \/ \E p \in Procs : AcceptSetSpeaker(p)

SpecRace == Init /\ [][NextRace]_vars

-----------------------------------------------------------------------------
(* Two accepts at a time and no other writer of invitations.               *)

NextPair ==
    \/ /\ pc["p2"] = "idle"
       /\ lecSeq < MaxRaceLectures
       /\ CreateLectureBegin("p2", AcceptLecturePayload)
    \/ \E code \in UpdateCodes : GenerateProbe("p2", code)
    \/ CreateLectureInsert("p2")
    \/ \E payload \in RaceInvitationInputs :
          /\ invSeq < MaxRaceInvitations
          /\ create_invitation(payload)
    \/ \E p \in Procs, id \in {"b1", "b2"} : AcceptFind(p, id)
    \/ \E p \in Procs : AcceptSetStatus(p)
    \/ \E p \in Procs : AcceptSetSpeaker(p)

SpecPair == Init /\ [][NextPair]_vars

-----------------------------------------------------------------------------
(* The attendance of user c1 in lecture a1 written by add, create and the  *)
(* presence upsert, and listed after the writes have completed.            *)

MaxRollLA == 2
MaxRollUsers == 1

RollRoom == pc["p1"] = "idle" /\ Cardinality(la) < MaxRollLA

NextRoll ==
    \/ /\ Cardinality(users) + InFlightRegisters < MaxRollUsers
       /\ RegisterBegin("p2", ListingRegisterPayload)
    \/ RegisterFindUsername("p2")
    \/ RegisterFindEmail("p2")
    \/ RegisterInsert("p2")
    \/ \E is_present \in {None, Some(TRUE)} :
          /\ RollRoom
          /\ add_la([lecture_id |-> "a1", audience_id |-> "c1",
                     is_present |-> is_present, joined_at |-> None], 1)
    \/ /\ RollRoom
       /\ create_la_entry([lecture_id |-> "a1", audience_id |-> "c1"], 1)
    \/ \E is_present \in BOOLEAN :
          /\ pc["p1"] = "idle"
          /\ \/ Cardinality(la) < MaxRollLA
             \/ \E d \in la : LaKey(d, "a1", "c1")
          /\ update_is_present([lecture_id |-> "a1", audience_id |-> "c1",
                                is_present |-> is_present], 1)
    \/ PresentUsersFind("p1", "a1")
    \/ PresentUsersResolve("p1")

SpecRoll == Init /\ [][NextRoll]_vars

-----------------------------------------------------------------------------
(* Claims.                                                                 *)

\* C1: lecturecode is unique among the stored lectures in every reachable
\* state, also when lecture creations run concurrently.
C1_LecturecodeUnique ==
    \A d1 \in lectures, d2 \in lectures :
        d1._id # d2._id => d1.lecturecode # d2.lecturecode

\* C9: unique-code allocation always terminates: a creation that entered
\* the draw-and-probe loop leaves it, with a code or with an error.
C9_AllocationTerminates ==
    \A p \in Procs : (pc[p] = "gen") ~> (pc[p] # "gen")


\* C2: at most one Attendance record per (lecture_id, audience_id) in every
\* state the Attendance operations reach.
C2_AttendanceUnique ==
    \A d1 \in la, d2 \in la :
        LaKey(d1, d2.lecture_id, d2.audience_id) => d1._id = d2._id

AcceptOK(r, id) ==
    /\ r.op = "accept_invitation"
    /\ r.code = OK
    /\ parse_str(r.arg[1]) = id

\* The status of invitation id and the speaker_id of the lecture it names.
AcceptOutcome(id) ==
    {<<d.status, {l.speaker_id : l \in {x \in lectures : x._id = d.lecture_id}}>> :
        d \in {x \in invitations : x._id = id}}

\* C4: accept is idempotent: from the return of a successful accept of an
\* invitation to the return of the next successful accept of the same
\* invitation, with no other request in between, the invitation's status
\* (Accepted) and the speaker_id of its lecture do not change.
C4_AcceptIdempotent ==
    [][\A id \in {"b1", "b2", "b3"} :
          (AcceptOK(last, id) /\ AcceptOK(last', id)) =>
              /\ AcceptOutcome(id)' = AcceptOutcome(id)
              /\ \A d \in invitations : d._id = id => d.status = Accepted]_vars

\* A second accept of b1 has written the status, right after the first one
\* returned; the lecture already has the invitation's speaker.
C4_Witness ==
    /\ AcceptOK(last, "b1")
    /\ pc["p1"] = "accept_speaker"
    /\ loc["p1"].oid = "b1"
    /\ \E d \in invitations, l \in lectures :
          /\ d._id = "b1"
          /\ l._id = d.lecture_id
          /\ l.speaker_id = d.speaker_id

\* Exactly one record has the key, and it has is_present = b.
OnePresence(coll, lecture_oid, audience_oid, b) ==
    /\ Cardinality({d \in coll : LaKey(d, lecture_oid, audience_oid)}) = 1
    /\ \A d \in coll : LaKey(d, lecture_oid, audience_oid) => d.is_present = b

\* C5: upsertPresence(L,A,true) followed by upsertPresence(L,A,false) leaves
\* exactly one Attendance record for (L,A), with is_present = false.
C5_TrueThenFalse ==
    [][\A now \in Times :
          (/\ last.op = "update_is_present"
           /\ last.code = OK
           /\ last.arg[1] = "a1" /\ last.arg[2] = "c1" /\ last.arg[3] = TRUE
           /\ update_is_present([lecture_id |-> "a1", audience_id |-> "c1",
                                 is_present |-> FALSE], now))
          => OnePresence(la', "a1", "c1", FALSE)]_vars

C7_SubmitTwice ==
    [][\A lecture_id \in {"a1", "a2"}, user_id \in {"c1", "C2"},
          f \in FeedbackFlagInputs, now \in Times :
          (/\ last.op = "submit_feedback"
           /\ last.code = OK
           /\ parse_str(last.arg[1]) = parse_str(lecture_id)
           /\ parse_str(last.arg[2]) = parse_str(user_id)
           /\ submit_feedback(FeedbackPayload(lecture_id, user_id, f), now))
          => \E d \in feedback' :
                /\ \A e \in feedback' :
                      FeedbackKey(e, parse_str(lecture_id), parse_str(user_id))
                          <=> e = d
                /\ d.too_fast = (f.too_fast = Some(TRUE))
                /\ d.too_slow = (f.too_slow = Some(TRUE))
                /\ d.boring = (f.boring = Some(TRUE))
                /\ d.bad_question_quality = (f.bad_question_quality = Some(TRUE))
                /\ d.other = IF f.other = None THEN "" ELSE f.other[1]]_vars

\* A resubmission on (a1, c1) replaced flags that were set by flags that
\* are not.
C7_Witness ==
    /\ last.op = "submit_feedback"
    /\ last.code = OK
    /\ last.arg[1] = "a1" /\ last.arg[2] = "c1" /\ last.arg[3] = "existing"
    /\ \E d \in feedback :
          /\ FeedbackKey(d, "a1", "c1")
          /\ ~d.too_fast /\ d.too_slow /\ d.other = "" /\ d.created_at = 2

\* C8: deleting a lecture never cascades: the delete leaves every
\* Invitation, Attendance, Feedback and Discussion record as it was, and a
\* get of an invitation that names the deleted lecture succeeds.
C8_DeleteNoCascade ==
    [][/\ \A id \in {"a1", "a2"} :
             delete_lecture(id) =>
                 /\ invitations' = invitations
                 /\ la' = la
                 /\ feedback' = feedback
                 /\ discussion' = discussion
       /\ \A id \in {"b1", "b2"} :
             (/\ last.op = "delete_lecture"
              /\ last.code = OK
              /\ \E d \in invitations :
                    d._id = id /\ d.lecture_id = parse_str(last.arg[1])
              /\ get_invitation(id))
             => /\ last'.code = OK
                /\ last'.arg[2] = parse_str(last.arg[1])]_vars

\* Lecture a1 was deleted, its invitation, attendance, feedback and
\* discussion records are there, and the get of the invitation succeeded.
C8_Witness ==
    /\ last = Response("get_invitation", <<"b1", "a1", "c1", Pending>>, OK)
    /\ lecSeq = 1
    /\ lectures = {}
    /\ \E d \in invitations : d.lecture_id = "a1"
    /\ \E d \in la : d.lecture_id = "a1"
    /\ \E d \in feedback : d.lecture_id = "a1"
    /\ \E d \in discussion : d.lecture_id = "a1"

\* C10: when the lecture write of accept fails after the status write, the
\* caller gets INTERNAL_SERVER_ERROR, the invitation is there with status
\* Accepted, and no step of that accept has changed a lecture.
C10_AcceptPartialFailure ==
    [][\A p \in Procs :
          /\ (pc[p] = "accept_speaker" /\ pc'[p] = "idle" /\ last'.code # OK)
             => /\ last' = Response("accept_invitation",
                       <<loc[p].invitation_id, "update lecture failed">>,
                       INTERNAL_SERVER_ERROR)
                /\ lectures' = lectures
                /\ \E d \in invitations' :
                      d._id = loc[p].oid /\ d.status = Accepted
          /\ (pc[p] = "accept_status" => lectures' = lectures)]_vars

\* The lecture write of accept(b1) failed: b1 is Accepted and its lecture
\* still has no speaker.
C10_Witness ==
    /\ last = Response("accept_invitation", <<"b1", "update lecture failed">>,
                       INTERNAL_SERVER_ERROR)
    /\ \E d \in invitations, l \in lectures :
          /\ d._id = "b1"
          /\ d.status = Accepted
          /\ l._id = d.lecture_id
          /\ l.speaker_id = NULL

AcceptFailed(r, id) ==
    /\ r.op = "accept_invitation"
    /\ r.code = INTERNAL_SERVER_ERROR
    /\ parse_str(r.arg[1]) = id

\* The state one uninterrupted accept of invitation id ends in.
AcceptFinal(id) ==
    /\ \E d \in invitations : d._id = id
    /\ \A d \in invitations :
          d._id = id =>
              /\ d.status = Accepted
              /\ \A l \in lectures :
                    l._id = d.lecture_id => l.speaker_id = d.speaker_id

\* C11: a full retry of accept that succeeds after a failed accept of the
\* same invitation ends where one uninterrupted accept ends: the invitation
\* is Accepted and its lecture has the invitation's speaker_id.
C11_RetryAfterFailure ==
    [][\A id \in {"b1", "b2", "b3"} :
          /\ (AcceptFailed(last, id) /\ AcceptOK(last', id)) => AcceptFinal(id)'
          /\ (pc["p1"] = "accept_speaker" /\ AcceptOK(last', id)
              /\ loc["p1"].oid = id /\ pc'["p1"] = "idle") => AcceptFinal(id)']_vars

\* The lecture write of accept(b1) failed and the retry has written the
\* status again; the lecture of b1 has no speaker yet.
C11_Witness ==
    /\ AcceptFailed(last, "b1")
    /\ last.arg[2] = "update lecture failed"
    /\ pc["p1"] = "accept_speaker"
    /\ loc["p1"].oid = "b1"
    /\ \E l \in lectures : l._id = loc["p1"].lecture_oid /\ l.speaker_id = NULL

\* The handlers whose first argument is an identifier string.
IdOps == {"list_by_organizer", "get_by_speaker", "get_present_users",
          "delete_lecture"}

\* C12: a request with an identifier string that does not decode is
\* answered BAD_REQUEST before any storage access: list_by_organizer,
\* get_by_speaker, get_present_users and delete_lecture by their response,
\* create_lecture with such a speaker_id by returning from its validation.
C12_InvalidIdRejected ==
    [][/\ (last' # last /\ last'.op \in IdOps
             /\ parse_str(last'.arg[1]) = NULL)
          => last'.code = BAD_REQUEST
       /\ \A p \in Procs, payload \in LectureCreatePayloads :
             (/\ CreateLectureBegin(p, payload)
              /\ payload.speaker_id # None
              /\ trim(payload.speaker_id[1]) # ""
              /\ parse_str(trim(payload.speaker_id[1])) = NULL)
             => (last'.code = BAD_REQUEST /\ pc'[p] = "idle")]_vars

\* The user documents a read returned.
ReturnedUsers(r) ==
    IF r.op \in {"login", "get_user"} THEN r.arg[2]
    ELSE IF r.op = "get_all_users" THEN r.arg[1]
    ELSE IF r.op = "get_present_users" THEN r.arg[3]
    ELSE {}

\* C13: no user document returned by login, get_user, get_all_users or
\* get_present_users has a password field.
C13_NoPasswordReturned ==
    \A u \in ReturnedUsers(last) : "password" \notin DOMAIN u

\* A status that stands for a class of its own: none of the statuses the
\* handlers use for success, InvalidArgument, Unauthorized, NotFound,
\* Internal, and no panic.
ConflictClass(code) ==
    code \notin {OK, BAD_REQUEST, UNAUTHORIZED, NOT_FOUND,
                 INTERNAL_SERVER_ERROR, PANIC}

\* C14: a registration whose e-mail is already registered when it is looked
\* up ends with a Conflict-class error and inserts no user.
C14_DuplicateEmailConflict ==
    [][\A p \in Procs :
          (/\ pc[p] \in {"reg_username", "reg_email"}
           /\ \E d \in users : d.email = loc[p].payload.email
           /\ pc'[p] = "idle"
           /\ last'.code # PANIC)
          => (users' = users /\ ConflictClass(last'.code))]_vars

\* C15: no two users share a username and no two users share an e-mail, in
\* every state that registrations and user updates reach.
C15_UsernameEmailUnique ==
    \A d1 \in users, d2 \in users :
        d1._id # d2._id => (d1.username # d2.username /\ d1.email # d2.email)

\* C16: login with a registered e-mail and the password registered with it
\* returns OK and a profile without password; every other login returns
\* UNAUTHORIZED.
C16_Login ==
    [][\A payload \in LoginPayloads :
          login(payload) =>
              IF \E d \in users :
                    /\ d.email = payload.email
                    /\ verify_password(payload.password, d.password)
              THEN /\ last'.code = OK
                   /\ last'.arg[2] # {}
                   /\ \A u \in last'.arg[2] : "password" \notin DOMAIN u
              ELSE last'.code = UNAUTHORIZED]_vars

\* C17: the summary of a lecture that no feedback record names returns
\* OK with the four counters at 0.
C17_SummaryEmpty ==
    [][\A lecture_id \in {"a1", "a2"} :
          (/\ feedback_summary(lecture_id)
           /\ \A d \in feedback : d.lecture_id # parse_str(lecture_id))
          => /\ last'.code = OK
             /\ last'.arg[2] = [too_fast |-> 0, too_slow |-> 0, boring |-> 0,
                                bad_question_quality |-> 0]]_vars

\* The summary of a2 was returned with all counters 0 while lecture a1 has
\* a record with flags set and a2 has none.
C17_Witness ==
    /\ last = Response("feedback_summary",
                  <<"a2", [too_fast |-> 0, too_slow |-> 0, boring |-> 0,
                           bad_question_quality |-> 0]>>, OK)
    /\ \E d \in feedback : d.lecture_id = "a1" /\ d.too_fast
    /\ \A d \in feedback : d.lecture_id # "a2"

\* The attendance records without their joined_at.
WithoutJoinedAt(coll) == {doc_remove(d, "joined_at") : d \in coll}

C19_StatusMonotone ==
    [][/\ \A e \in invitations' : e.status \in {Pending, Accepted}
       /\ \A d \in invitations, e \in invitations' :
             (d._id = e._id /\ d.status = Accepted) => e.status = Accepted]_vars

\* The lecture documents of l2 are those of l1 with, at most, another
\* speaker_id each.
OnlySpeakerDiffers(l1, l2) ==
    /\ {d._id : d \in l1} = {d._id : d \in l2}
    /\ Cardinality(l1) = Cardinality(l2)
    /\ \A d \in l1 : \E e \in l2 : e = [d EXCEPT !.speaker_id = e.speaker_id]

\* C20: among the handlers of invitations, attendance, feedback and
\* discussions, only the lecture write of accept changes a lecture document,
\* and it changes nothing but speaker_id; every other workflow step leaves the
\* lectures collection as it was.  The lecture that the workflow runs against
\* is put there by the lecture registry (create_lecture), which is outside the
\* claim.
C20_AcceptOnlySpeakerWriter ==
    [][(lectures' # lectures) =>
          \/ CreateLectureInsert("p2")
          \/ /\ AcceptSetSpeaker("p1")
             /\ OnlySpeakerDiffers(lectures, lectures')]_vars

\* accept has written the speaker of lecture a1 after an attendance, feedback
\* or discussion handler has written its own collection.
C20_Witness ==
    /\ AcceptOK(last, "b1")
    /\ \E l \in lectures : l._id = "a1" /\ l.speaker_id = "c1"
    /\ invitations # {}
    /\ la \cup feedback \cup discussion # {}

\* The fields a LectureUpdate payload carries.
Supplied(payload) == {k \in DOMAIN payload : payload[k] # None}

\* C21: the write of update_lecture(id, payload) changes, on the lecture with
\* that id, only fields that the payload supplies; every field not supplied
\* keeps its value, every other lecture stays as it is, and no lecture
\* appears or disappears.  A request that is refused before or at the write
\* (p1 stays idle and the answer is update_lecture's) changes no lecture.
C21_UpdateOnlySupplied ==
    [][/\ (pc["p1"] = "idle" /\ pc'["p1"] = "update_read") =>
             \A id \in UpdateLectureIds, payload \in LectureUpdatePayloads :
                UpdateLectureWrite("p1", id, payload) =>
                   /\ Cardinality(lectures') = Cardinality(lectures)
                   /\ \A d \in lectures :
                         IF d._id = parse_str(id)
                         THEN \E e \in lectures' :
                                 /\ DOMAIN e = DOMAIN d
                                 /\ e._id = d._id
                                 /\ \A k \in DOMAIN d \ Supplied(payload) :
                                       e[k] = d[k]
                         ELSE d \in lectures'
       /\ (pc["p1"] = "idle" /\ pc'["p1"] = "idle"
           /\ last'.op = "update_lecture") => lectures' = lectures]_vars

\* update_lecture has answered OK after changing the topic of lecture a1,
\* whose other fields are those of its creation, while lecture a2 exists.
C21_Witness ==
    /\ last.op = "update_lecture"
    /\ last.code = OK
    /\ \E d \in lectures :
          /\ d._id = "a1"
          /\ d.topic = "t2"
          /\ d.start_time = 1000
          /\ d.duration = 60
          /\ d.speaker_id = NULL
    /\ \E d \in lectures : d._id = "a2" /\ d.topic = "t1"

\* C22: update_lecture answers NOT_FOUND when the id is well formed, the
\* payload is acceptable and no lecture has the id; it answers BAD_REQUEST
\* when the payload supplies no field or its start_time is malformed; and a
\* request that is answered NOT_FOUND or BAD_REQUEST has changed no lecture:
\* neither in the answering step nor in an earlier step of the same request
\* (result.modified_count of its update_one).
C22_UpdateFailures ==
    [][/\ (pc["p1"] = "idle" /\ pc'["p1"] = "idle"
           /\ last'.op = "update_lecture") =>
             /\ lectures' = lectures
             /\ \A payload \in LectureUpdatePayloads :
                   UpdateLectureWrite("p1", last'.arg[1], payload) =>
                      /\ (Supplied(payload) = {}
                          \/ StartTimeInvalid(payload.start_time))
                            => last'.code = BAD_REQUEST
                      /\ (/\ parse_str(last'.arg[1]) # NULL
                          /\ ~ StartTimeInvalid(payload.start_time)
                          /\ DOMAIN UpdateSetDoc(payload) # {}
                          /\ ~ \E d \in lectures :
                                  d._id = parse_str(last'.arg[1]))
                            => last'.code = NOT_FOUND
       /\ (pc["p1"] = "update_read" /\ pc'["p1"] = "idle"
           /\ last'.code \in {NOT_FOUND, BAD_REQUEST}) =>
             /\ lectures' = lectures
             /\ loc["p1"].result.modified_count = 0]_vars

\* C23: delete_lecture(id) removes the lecture with that id and no other
\* when there is one, and answers OK; when no lecture has the id it answers
\* NOT_FOUND and leaves the lectures as they were, so a second delete of the
\* same id is answered NOT_FOUND.
C23_DeleteExactlyOne ==
    [][(last'.op = "delete_lecture") =>
       \A id \in {"a1", "a2"} :
          delete_lecture(id) =>
             IF \E d \in lectures : d._id = id
             THEN /\ lectures' = {d \in lectures : d._id # id}
                  /\ last'.code = OK
             ELSE /\ lectures' = lectures
                  /\ last'.code = NOT_FOUND]_vars

\* Lecture a1 was created and deleted, a second delete of a1 has been
\* answered NOT_FOUND, and lecture a2 is still there.
C23_Witness ==
    /\ last = Response("delete_lecture", <<"a1">>, NOT_FOUND)
    /\ lecSeq >= 2
    /\ ~ \E d \in lectures : d._id = "a1"
    /\ \E d \in lectures : d._id = "a2"

\* C24: accept of a well-formed id that matches no invitation is answered
\* NOT_FOUND in its first step and ends there: no invitation and no lecture
\* is changed and the request has no further step.
C24_AcceptNotFound ==
    [][(pc["p1"] = "idle" /\ last'.op = "accept_invitation") =>
       \A id \in {"b1", "B1", "b2", "b3"} :
          (/\ AcceptFind("p1", id)
           /\ ~ \E d \in invitations : d._id = parse_str(id)) =>
             /\ last'.code = NOT_FOUND
             /\ invitations' = invitations
             /\ lectures' = lectures
             /\ pc'["p1"] = "idle"]_vars

\* accept(b1) has been answered NOT_FOUND after invitation b1 was created and
\* deleted again, with lecture a1 in the registry.
C24_Witness ==
    /\ last.op = "accept_invitation"
    /\ last.arg[1] = "b1"
    /\ last.code = NOT_FOUND
    /\ invSeq >= 1
    /\ invitations = {}
    /\ \E l \in lectures : l._id = "a1"

\* The records of a collection that refer to lecture id.
OfLecture(coll, id) == {d \in coll : d.lecture_id = id}

\* Lecture a1 has been deleted and the bulk deletes by lecture that exist
\* have been issued for it: the last one has just been answered and no
\* invitation and no attendance record of a1 is left.
TeardownIssued ==
    /\ lecSeq >= 1
    /\ ~ \E l \in lectures : l._id = "a1"
    /\ last.op \in {"delete_invitation_by_lid", "delete_la_by_lid"}
    /\ last.arg = <<"a1">>
    /\ last.code = OK
    /\ OfLecture(invitations, "a1") = {}
    /\ OfLecture(la, "a1") = {}

\* C25 as claimed: once lecture a1 is deleted and the bulk deletes by lecture
\* have been issued, no invitation, attendance, feedback or discussion record
\* refers to a1.
C25_TeardownAchievable ==
    TeardownIssued =>
        /\ OfLecture(feedback, "a1") = {}
        /\ OfLecture(discussion, "a1") = {}

\* C25 as amended: the bulk delete by lecture of invitations and that of
\* attendance remove every record of the lecture and no other; no step
\* removes a feedback or discussion record, or moves one to another lecture.
C25_TeardownInvitationsAttendance ==
    [][/\ \A id \in {"a1"} :
             /\ (delete_invitation_by_lid(id)
                 /\ last'.op = "delete_invitation_by_lid") =>
                   invitations' = invitations \ OfLecture(invitations, id)
             /\ (delete_la_by_lid(id) /\ last'.op = "delete_la_by_lid") =>
                   la' = la \ OfLecture(la, id)
       /\ \A d \in feedback :
             \E e \in feedback' :
                e._id = d._id /\ e.lecture_id = d.lecture_id
       /\ discussion \subseteq discussion']_vars

\* Lecture a1 is deleted, its invitation and its attendance record have been
\* removed by the bulk deletes, and its feedback and discussion are left.
C25_Witness ==
    /\ TeardownIssued
    /\ invSeq >= 1
    /\ OfLecture(feedback, "a1") # {}
    /\ OfLecture(discussion, "a1") # {}

\* The value a submit stores for a flag and for the text: the value of the
\* call, false or the empty string when the call omits it.
FlagOf(o) == IF o = None THEN FALSE ELSE o[1]

TextOf(o) == IF o = None THEN "" ELSE o[1]

\* C26: after every accepted submit, first or repeated, each record of the
\* call's (lecture_id, user_id) holds the four flags and the text of that
\* call, false for an omitted flag and "" for an omitted text, whatever the
\* record held before; records of other keys are as they were.
C26_SubmitOverwrites ==
    [][(last'.op = "submit_feedback" /\ last'.code = OK) =>
       \A f \in FeedbackFlagInputs, now \in Times :
          submit_feedback(FeedbackPayload(last'.arg[1], last'.arg[2], f), now)
          => /\ \E d \in feedback' :
                   FeedbackKey(d, parse_str(last'.arg[1]),
                               parse_str(last'.arg[2]))
             /\ \A d \in feedback' :
                   IF FeedbackKey(d, parse_str(last'.arg[1]),
                                  parse_str(last'.arg[2]))
                   THEN /\ d.too_fast = FlagOf(f.too_fast)
                        /\ d.too_slow = FlagOf(f.too_slow)
                        /\ d.boring = FlagOf(f.boring)
                        /\ d.bad_question_quality =
                               FlagOf(f.bad_question_quality)
                        /\ d.other = TextOf(f.other)
                   ELSE d \in feedback]_vars

\* A later submit on (a1, c1) that omitted every flag and the text has left
\* the record with four false flags and the empty text, beside a record of
\* another key that has a flag and a text.
C26_Witness ==
    /\ last.op = "submit_feedback"
    /\ last.code = OK
    /\ last.arg = <<"a1", "c1", "existing">>
    /\ \E d \in feedback :
          /\ FeedbackKey(d, "a1", "c1")
          /\ ~d.too_fast /\ ~d.too_slow /\ ~d.boring
          /\ ~d.bad_question_quality
          /\ d.other = ""
    /\ \E d \in feedback :
          ~FeedbackKey(d, "a1", "c1") /\ d.too_fast /\ d.other = "too dense"

\* The number of feedback records of lecture id in which flag is true.
TrueCount(id, flag) ==
    Cardinality({d._id : d \in {e \in feedback :
                                   e.lecture_id = id /\ e[flag] = TRUE}})

\* C27: the summary of lecture L is answered OK with, for each of the four
\* flags, the number of feedback records of L whose flag is true; records of
\* other lectures and records of L with the flag false are not counted.
C27_SummaryCounts ==
    [][(last'.op = "feedback_summary" /\ last'.code = OK) =>
       \A lecture_id \in {"a1", "a2"} :
          feedback_summary(lecture_id) =>
             /\ DOMAIN last'.arg[2] =
                    {"too_fast", "too_slow", "boring", "bad_question_quality"}
             /\ \A flag \in DOMAIN last'.arg[2] :
                   last'.arg[2][flag] = TrueCount(parse_str(lecture_id), flag)]_vars

\* The summary of a2 has counted the two true flags of the record of a2 and
\* nothing of the record of a1, which has other flags set.
C27_Witness ==
    /\ last = Response("feedback_summary",
                  <<"a2", [too_fast |-> 1, too_slow |-> 0, boring |-> 0,
                           bad_question_quality |-> 1]>>, OK)
    /\ \E d \in feedback : d.lecture_id = "a1" /\ d.too_slow /\ d.boring
    /\ \E d \in feedback : d.lecture_id = "a2" /\ d.too_fast /\ ~d.boring

\* The audience ids of the attendance records of lecture id that are present.
PresentAudience(id) ==
    {d.audience_id : d \in {x \in la : x.lecture_id = id /\ x.is_present = TRUE}}

\* C28: get_present_users(L) reads the audience ids of exactly the attendance
\* records of L with is_present true, and answers OK with exactly the users
\* that exist among those ids, each once; an id that matches no user is left
\* out and is no error, and with no present record the answer is the empty
\* list.
C28_PresentUsersExact ==
    [][/\ \A id \in {"a1"} :
             PresentUsersFind("p1", id) =>
                IF PresentAudience(id) = {}
                THEN /\ last'.code = OK
                     /\ last'.arg = <<id, "users", {}>>
                     /\ pc'["p1"] = "idle"
                ELSE /\ pc'["p1"] = "present_resolve"
                     /\ loc'["p1"].user_ids = PresentAudience(id)
       /\ PresentUsersResolve("p1") =>
             /\ last'.code = OK
             /\ last'.arg[2] = "users"
             /\ {u._id : u \in last'.arg[3]} =
                    {u._id : u \in users} \cap loc["p1"].user_ids
             /\ \A r \in last'.arg[3] :
                   \E u \in users :
                      /\ u._id = r._id
                      /\ u.username = r.username
                      /\ u.email = r.email
             /\ Cardinality(last'.arg[3]) =
                    Cardinality({u._id : u \in last'.arg[3]})]_vars

\* The listing of a1 has returned user c1 and nothing for c2, which is
\* present in a1 and is no user.
C28_Witness ==
    /\ last.op = "get_present_users"
    /\ last.code = OK
    /\ last.arg[1] = "a1"
    /\ {u._id : u \in last.arg[3]} = {"c1"}
    /\ PresentAudience("a1") = {"c1", "c2"}
    /\ ~ \E u \in users : u._id = "c2"


\* The entry e is what a listing gives for a record of user user_id: the
\* user's stored username and avatar, or the placeholders when no user has
\* that _id.
Enriched(e, user_id) ==
    /\ e.user_id = user_id
    /\ IF \E u \in users : u._id = user_id
       THEN \E u \in users : /\ u._id = user_id
                             /\ e.username = u.username
                             /\ e.avatar = u.avatar
       ELSE e.username = UnknownUser /\ e.avatar = ""

CommentsSoFar ==
    IF pc'["p1"] = "idle" THEN last'.arg[2] ELSE loc'["p1"].comments

\* C29: listComments(L) returns exactly the feedback records of lecture L
\* whose text is non-empty, one entry per record with the record's text and
\* the submitter's username and avatar; a submitter who no longer exists
\* gets the placeholder username and the empty avatar, and the listing
\* still answers OK.
C29_CommentsExact ==
    [][/\ (pc["p1"] = "idle" /\ pc'["p1"] = "comments_resolve") =>
             /\ loc'["p1"].comments = <<>>
             /\ loc'["p1"].cursor =
                   {d \in feedback :
                       /\ d.lecture_id = parse_str(loc'["p1"].lecture_id)
                       /\ d.other # ""}
       /\ (pc["p1"] = "idle" /\ pc'["p1"] = "idle" /\ last' # last
           /\ last'.op = "feedback_detail_comments" /\ last'.code = OK) =>
             /\ last'.arg[2] = <<>>
             /\ ~ \E d \in feedback :
                     /\ d.lecture_id = parse_str(last'.arg[1])
                     /\ d.other # ""
       /\ (pc["p1"] = "comments_resolve" /\ loc'["p1"] # loc["p1"]) =>
             /\ pc'["p1"] = "idle" =>
                   /\ last'.op = "feedback_detail_comments"
                   /\ last'.code = OK
                   /\ Cardinality(loc["p1"].cursor) = 1
             /\ Len(CommentsSoFar) = Len(loc["p1"].comments) + 1
             /\ SubSeq(CommentsSoFar, 1, Len(loc["p1"].comments))
                   = loc["p1"].comments
             /\ \E fb \in loc["p1"].cursor :
                   /\ Enriched(CommentsSoFar[Len(CommentsSoFar)], fb.user_id)
                   /\ CommentsSoFar[Len(CommentsSoFar)].comment = fb.other
                   /\ pc'["p1"] # "idle" =>
                         loc'["p1"].cursor = loc["p1"].cursor \ {fb}]_vars

\* A listing of a1 answered two comments, one of the registered user and one
\* under the placeholder, while a record of a1 without text is stored.
C29_Witness ==
    /\ last.op = "feedback_detail_comments"
    /\ last.code = OK
    /\ Len(last.arg[2]) = 2
    /\ \E i \in 1..2, j \in 1..2 :
          /\ last.arg[2][i].username = "u1"
          /\ last.arg[2][i].comment = "too dense"
          /\ last.arg[2][j].username = UnknownUser
          /\ last.arg[2][j].avatar = ""
    /\ \E d \in feedback : d.lecture_id = "a1" /\ d.other = ""


ListSoFar ==
    IF pc'["p1"] = "idle" THEN last'.arg[2] ELSE loc'["p1"].list

\* C30: the discussion log is append-only: no step removes or changes a
\* stored message, a listing of lecture L reads every message of L that is
\* stored when it starts, and it returns each of them once with its id and
\* its content as stored, whatever ran since the append; a poster who does
\* not exist is shown under the placeholder username and the empty avatar,
\* and the listing still answers OK.
C30_LogAppendOnly ==
    [][/\ discussion \subseteq discussion'
       /\ (pc["p1"] = "idle" /\ pc'["p1"] = "discussions_resolve") =>
             /\ loc'["p1"].list = <<>>
             /\ loc'["p1"].cursor =
                   {d \in discussion :
                       d.lecture_id = parse_str(loc'["p1"].lecture_id)}
       /\ (pc["p1"] = "discussions_resolve" /\ loc'["p1"] # loc["p1"]) =>
             /\ pc'["p1"] = "idle" =>
                   /\ last'.op = "get_discussions_by_lecture"
                   /\ last'.code = OK
                   /\ Cardinality(loc["p1"].cursor) = 1
             /\ Len(ListSoFar) = Len(loc["p1"].list) + 1
             /\ SubSeq(ListSoFar, 1, Len(loc["p1"].list)) = loc["p1"].list
             /\ \E doc \in loc["p1"].cursor :
                   /\ doc \in discussion
                   /\ ListSoFar[Len(ListSoFar)].id = doc._id
                   /\ ListSoFar[Len(ListSoFar)].content = doc.content
                   /\ Enriched(ListSoFar[Len(ListSoFar)], doc.user_id)
                   /\ pc'["p1"] # "idle" =>
                         loc'["p1"].cursor = loc["p1"].cursor \ {doc}]_vars

\* A listing of a1 answered both messages, one of the registered user and
\* one under the placeholder, after the lecture itself was deleted.
C30_Witness ==
    /\ last.op = "get_discussions_by_lecture"
    /\ last.code = OK
    /\ Len(last.arg[2]) = 2
    /\ \E i \in 1..2, j \in 1..2 :
          /\ last.arg[2][i].username = "u1"
          /\ last.arg[2][i].content = "hello"
          /\ last.arg[2][j].username = UnknownUser
          /\ last.arg[2][j].content = "hi"
    /\ lecSeq = 1
    /\ lectures = {}


\* C31: every successful invitation create adds exactly one invitation,
\* under an id no stored invitation has, with the payload's lecture,
\* speaker and status, also when invitations of the same (lecture_id,
\* speaker_id) are stored already, and leaves every stored invitation as it
\* is.
C31_CreateUnconditioned ==
    [][(last' # last /\ last'.op = "create_invitation" /\ last'.code = OK) =>
          /\ invitations \subseteq invitations'
          /\ Cardinality(invitations') = Cardinality(invitations) + 1
          /\ \A d \in invitations : d._id # last'.arg[1]
          /\ \A payload \in InvitationInputs :
                create_invitation(payload) =>
                   invitations' \ invitations =
                      {[_id |-> last'.arg[1],
                        lecture_id |-> parse_str(payload.lecture_id),
                        speaker_id |-> parse_str(payload.speaker_id),
                        status |-> payload.status]}]_vars

\* A create has just answered, and two invitations of the same lecture and
\* speaker are stored, the new one among them.
C31_Witness ==
    /\ last.op = "create_invitation"
    /\ last.code = OK
    /\ \E d1 \in invitations, d2 \in invitations :
          /\ d1._id # d2._id
          /\ d2._id = last.arg[1]
          /\ d1.lecture_id = d2.lecture_id
          /\ d1.speaker_id = d2.speaker_id


\* C32: a bulk delete by lecture with a well-formed id, of invitations and
\* of attendance records, removes every record of its collection whose
\* lecture_id is that lecture and no record of another lecture, touches no
\* other collection, and answers OK, also when no record matches.
C32_BulkDeleteExact ==
    [][/\ (/\ last' # last
           /\ last'.op = "delete_invitation_by_lid"
           /\ parse_str(last'.arg[1]) # NULL) =>
             /\ last'.code = OK
             /\ invitations' =
                   {d \in invitations : d.lecture_id # parse_str(last'.arg[1])}
             /\ la' = la
       /\ (/\ last' # last
           /\ last'.op = "delete_la_by_lid"
           /\ parse_str(last'.arg[1]) # NULL) =>
             /\ last'.code = OK
             /\ la' = {d \in la : d.lecture_id # parse_str(last'.arg[1])}
             /\ invitations' = invitations]_vars

\* A bulk delete of invitations has just answered OK; the two invitations
\* created after the first are gone, which only a bulk delete removes, and
\* the first, of lecture a2, is still stored.
C32_Witness ==
    /\ last.op = "delete_invitation_by_lid"
    /\ last.code = OK
    /\ invSeq = 3
    /\ \E d \in invitations :
          /\ invitations = {d}
          /\ d._id = "b1"
          /\ d.lecture_id = "a2"


\* The ISO-8601 timestamps among the start_time values sent, and the blank
\* speaker_id values.
Iso8601Sent == {"1970-01-01T00:00:01Z", "1970-01-01T01:00:02+01:00"}

BlankSent == {"", "  "}

\* C33: a lecture create whose organizer_id is no valid identifier, or whose
\* start_time is no ISO-8601 timestamp, answers BAD_REQUEST, starts no
\* insert and leaves the lectures as they are; a create with a blank
\* speaker_id that is accepted carries the speaker as absent, and the
\* lecture an insert stores has the speaker, organizer and start time the
\* accepted request carries; no other step adds a lecture.
C33_CreateValidation ==
    [][/\ \A p \in Procs :
             (/\ pc[p] = "idle"
              /\ \/ pc'[p] = "gen"
                 \/ last' # last /\ last'.op = "create_lecture") =>
                \A payload \in CreateInputs :
                   CreateLectureBegin(p, payload) =>
                      /\ (\/ payload.start_time \notin Iso8601Sent
                          \/ payload.organizer_id \notin DOMAIN HexTable) =>
                            /\ last'.code = BAD_REQUEST
                            /\ pc'[p] = "idle"
                            /\ lectures' = lectures
                      /\ (/\ pc'[p] = "gen"
                          /\ payload.speaker_id[1] \in BlankSent) =>
                            loc'[p].speaker_id = NULL
       /\ \A p \in Procs :
             (pc[p] = "insert" /\ pc'[p] = "idle" /\ last'.code = OK) =>
                \E d \in lectures' :
                   /\ lectures' = lectures \cup {d}
                   /\ d \notin lectures
                   /\ d.speaker_id = loc[p].speaker_id
                   /\ d.organizer_id = loc[p].organizer_id
                   /\ d.organizer_id # NULL
                   /\ d.start_time = loc[p].start_time
                   /\ d.start_time >= 0
       /\ ~ (lectures' \subseteq lectures) =>
             \E p \in Procs : pc[p] = "insert" /\ pc'[p] = "idle"]_vars

\* Two lectures are stored, one with an absent speaker, which under the
\* payloads of this specification comes from the blank speaker_id, and one
\* with the speaker c1.
C33_Witness ==
    /\ last.op = "create_lecture"
    /\ last.code = OK
    /\ \E d1 \in lectures, d2 \in lectures :
          /\ d1.speaker_id = NULL
          /\ d2.speaker_id = "c1"


\* C34: with one request at a time, no step of accept(i) touches another
\* invitation or another lecture: the read changes nothing, the status write
\* changes only the status of invitation i, and the lecture write changes
\* only the speaker_id of the lecture i references; when the accept answers
\* OK and that lecture exists, invitation i is Accepted and the lecture's
\* speaker_id is that of invitation i.
C34_AcceptEffect ==
    [][/\ (pc["p1"] = "idle" /\ pc'["p1"] = "accept_status") =>
             invitations' = invitations /\ lectures' = lectures
       /\ (pc["p1"] = "accept_status" /\ pc'["p1"] = "accept_speaker") =>
             /\ lectures' = lectures
             /\ Cardinality(invitations') = Cardinality(invitations)
             /\ \A d \in invitations :
                   IF d._id = loc["p1"].oid
                   THEN [d EXCEPT !.status = Accepted] \in invitations'
                   ELSE d \in invitations'
       /\ (/\ pc["p1"] = "accept_speaker"
           /\ pc'["p1"] = "idle"
           /\ last'.code = OK
           /\ \E l \in lectures : l._id = loc["p1"].lecture_oid) =>
             /\ invitations' = invitations
             /\ Cardinality(lectures') = Cardinality(lectures)
             /\ \A l \in lectures :
                   IF l._id = loc["p1"].lecture_oid
                   THEN [l EXCEPT !.speaker_id = loc["p1"].speaker_oid]
                           \in lectures'
                   ELSE l \in lectures'
             /\ \E d \in invitations' :
                   /\ d._id = parse_str(last'.arg[1])
                   /\ d.status = Accepted
                   /\ \E l \in lectures' :
                         /\ l._id = d.lecture_id
                         /\ l.speaker_id = d.speaker_id]_vars

\* accept of b2 has answered OK with two lectures and two invitations
\* stored: lecture a1 has the speaker of b2, lecture a2 has none, and b1 is
\* still Pending.
C34_Witness ==
    /\ AcceptOK(last, "b2")
    /\ \E d \in invitations : d._id = "b1" /\ d.status = Pending
    /\ \E d \in invitations :
          /\ d._id = "b2" /\ d.status = Accepted /\ d.lecture_id = "a1"
          /\ \E l \in lectures : l._id = "a1" /\ l.speaker_id = d.speaker_id
    /\ \E l \in lectures : l._id = "a2" /\ l.speaker_id = NULL


\* C35: when accept(i) ran concurrently with an update of invitation i that
\* changes its speaker_id or lecture_id, then once both have completed the
\* lecture referenced by invitation i has the speaker_id stored in
\* invitation i, and invitation i is Accepted.
C35_AcceptUpdateConsistent ==
    (AcceptOK(last, "b1") /\ NoRequestInFlight) =>
        \A d \in invitations :
            d._id = "b1" =>
               /\ d.status = Accepted
               /\ \A l \in lectures :
                     l._id = d.lecture_id => l.speaker_id = d.speaker_id

\* C35, amended: under concurrent updates of invitation i, accept(i) works
\* on the lecture_id and speaker_id that invitation i holds at the read;
\* its status write sets the status to Accepted and keeps the lecture_id
\* and speaker_id the invitation holds at that moment; its lecture write
\* sets the speaker_id of the lecture it read to the speaker_id it read and
\* changes no invitation; an update stores its payload in the invitation
\* and changes no lecture.
C35_AcceptWritesWhatItRead ==
    [][/\ \A p \in Procs :
             /\ (pc[p] = "idle" /\ pc'[p] = "accept_status") =>
                   \E d \in invitations :
                      /\ d._id = loc'[p].oid
                      /\ d.lecture_id = loc'[p].lecture_oid
                      /\ d.speaker_id = loc'[p].speaker_oid
             /\ (pc[p] = "accept_status" /\ pc'[p] = "accept_speaker") =>
                   /\ lectures' = lectures
                   /\ Cardinality(invitations') = Cardinality(invitations)
                   /\ \A d \in invitations :
                         IF d._id = loc[p].oid
                         THEN [d EXCEPT !.status = Accepted] \in invitations'
                         ELSE d \in invitations'
             /\ (pc[p] = "accept_speaker" /\ pc'[p] = "idle") =>
                   /\ invitations' = invitations
                   /\ Cardinality(lectures') = Cardinality(lectures)
                   /\ \A l \in lectures :
                         IF l._id = loc[p].lecture_oid
                         THEN [l EXCEPT !.speaker_id = loc[p].speaker_oid]
                                 \in lectures'
                         ELSE l \in lectures'
       /\ (pc' = pc /\ invSeq' = invSeq /\ invitations' # invitations) =>
             /\ lectures' = lectures
             /\ last'.op = "update_invitation"
             /\ \E payload \in RaceUpdateInputs :
                   /\ InvitationDoc(parse_str(last'.arg[1]),
                                    parse_str(payload.lecture_id),
                                    parse_str(payload.speaker_id),
                                    payload.status) \in invitations'
                   /\ \A d \in invitations :
                         d._id # parse_str(last'.arg[1]) => d \in invitations'
                   /\ Cardinality(invitations') = Cardinality(invitations)]_vars

\* Both have completed: accept of b1 answered last, invitation b1 holds the
\* speaker c2 of the update and is Accepted, and lecture a1 has the speaker
\* c1 that accept read before the update.
C35_Witness ==
    /\ AcceptOK(last, "b1")
    /\ NoRequestInFlight
    /\ \E d \in invitations :
          /\ d._id = "b1"
          /\ d.lecture_id = "a1"
          /\ d.speaker_id = "c2"
          /\ d.status = Accepted
    /\ \E l \in lectures : l._id = "a1" /\ l.speaker_id = "c1"


\* C36: with accepts of the invitations of one lecture running two at a
\* time and no other writer, an invitation that is Accepted stays Accepted,
\* every accept that answers leaves its invitation Accepted, every lecture
\* write of an accept stores that accept's speaker (the later write wins),
\* and a lecture's speaker_id is absent or the speaker_id of an Accepted
\* invitation of that lecture, never a third value.
C36_TwoAccepts ==
    [][/\ \A d \in invitations :
             d.status = Accepted => d \in invitations'
       /\ \A p \in Procs :
             (pc[p] = "accept_speaker" /\ pc'[p] = "idle") =>
                /\ \E d \in invitations' :
                      d._id = loc[p].oid /\ d.status = Accepted
                /\ \A l \in lectures' :
                      l._id = loc[p].lecture_oid =>
                         l.speaker_id = loc[p].speaker_oid
       /\ \A l \in lectures' :
             \/ l.speaker_id = NULL
             \/ \E d \in invitations' :
                   /\ d.lecture_id = l._id
                   /\ d.speaker_id = l.speaker_id
                   /\ d.status = Accepted]_vars

\* No request is in flight, the accept of b1 answered last, both invitations
\* of lecture a1 are Accepted with different speakers, and the lecture has
\* the speaker of b1, whose lecture write was the later one.
C36_Witness ==
    /\ NoRequestInFlight
    /\ AcceptOK(last, "b1")
    /\ \E d1 \in invitations, d2 \in invitations :
          /\ d1._id = "b1" /\ d2._id = "b2"
          /\ d1.status = Accepted /\ d2.status = Accepted
          /\ d1.lecture_id = "a1" /\ d2.lecture_id = "a1"
          /\ d1.speaker_id # d2.speaker_id
          /\ \E l \in lectures : l._id = "a1" /\ l.speaker_id = d1.speaker_id


\* C37: accept writes the invitation first and the lecture second: whenever
\* an accept is about to write the lecture, its invitation already has the
\* status Accepted, and a lecture's speaker changes only in the lecture
\* write of an accept whose status write has happened.
C37_StatusBeforeSpeaker ==
    [][/\ \A p \in Procs :
             pc'[p] = "accept_speaker" =>
                \E d \in invitations' :
                   d._id = loc'[p].oid /\ d.status = Accepted
       /\ (lecSeq' = lecSeq /\ lectures' # lectures) =>
             \E p \in Procs :
                /\ pc[p] = "accept_speaker"
                /\ pc'[p] = "idle"
                /\ \E d \in invitations :
                      d._id = loc[p].oid /\ d.status = Accepted]_vars

\* The accept of b1 has written the status and not yet the lecture: b1 is
\* Accepted and lecture a1 still has no speaker.
C37_Witness ==
    /\ pc["p1"] = "accept_speaker"
    /\ loc["p1"].oid = "b1"
    /\ \E d \in invitations : d._id = "b1" /\ d.status = Accepted
    /\ \E l \in lectures : l._id = "a1" /\ l.speaker_id = NULL


\* C38: an accept of a stored invitation whose lecture is not stored answers
\* OK, leaves the invitation Accepted, and its lecture write adds no lecture
\* and changes none.
C38_AcceptWithoutLecture ==
    [][(/\ pc["p1"] = "accept_speaker"
        /\ pc'["p1"] = "idle"
        /\ ~ \E l \in lectures : l._id = loc["p1"].lecture_oid) =>
          /\ last' = Response("accept_invitation",
                              <<loc["p1"].invitation_id, "">>, OK)
          /\ lectures' = lectures
          /\ \E d \in invitations' :
                d._id = loc["p1"].oid /\ d.status = Accepted]_vars

\* The accept of b1 has answered OK as the last request; b1 references
\* lecture a1 and is Accepted, lecture a1 was created and deleted, and
\* lecture a2 is stored without a speaker.
C38_Witness ==
    /\ AcceptOK(last, "b1")
    /\ NoRequestInFlight
    /\ \E d \in invitations :
          d._id = "b1" /\ d.lecture_id = "a1" /\ d.status = Accepted
    /\ lecSeq = 2
    /\ \E l \in lectures :
          lectures = {l} /\ l._id = "a2" /\ l.speaker_id = NULL


\* C39: a listing of the present users of lecture L that runs after
\* upsertPresence(L, A, false) has completed, with no attendance write in
\* between, does not return user A, whatever attendance operations came
\* before the upsert.
C39_AbsentAfterFalse ==
    [][(/\ pc["p1"] = "present_resolve"
        /\ pc'["p1"] = "idle"
        /\ last.op = "update_is_present"
        /\ last.code = OK
        /\ last.arg[3] = FALSE
        /\ parse_str(last.arg[1]) = parse_str(loc["p1"].lecture_id)) =>
          \A u \in ReturnedUsers(last') : u._id # parse_str(last.arg[2])]_vars


\* C40: a delete of attendance by key (L, A) that answers OK removes exactly
\* one record, a record of (L, A), and leaves every other record in place,
\* also when several records of (L, A) are stored; when no record of (L, A)
\* is stored it answers NOT_FOUND and the collection is unchanged.
C40_DeleteByKey ==
    [][(last'.op = "delete_la" /\ last'.code # BAD_REQUEST) =>
          IF \E d \in la : LaKey(d, parse_str(last'.arg[1]),
                                 parse_str(last'.arg[2]))
          THEN /\ last'.code = OK
               /\ la' \subseteq la
               /\ Cardinality(la') = Cardinality(la) - 1
               /\ \A d \in la \ la' : LaKey(d, parse_str(last'.arg[1]),
                                            parse_str(last'.arg[2]))
          ELSE /\ last'.code = NOT_FOUND
               /\ la' = la]_vars

\* A delete by key (a1, c1) has just answered OK and a record of (a1, c1) is
\* still stored: there were two, and one was removed.
C40_Witness ==
    /\ last.op = "delete_la"
    /\ last.code = OK
    /\ parse_str(last.arg[1]) = "a1"
    /\ parse_str(last.arg[2]) = "c1"
    /\ \E d \in la : LaKey(d, "a1", "c1")

=============================================================================
